---- MODULE Spec2Model ----
(***************************************************************************)
(* Model of the generator screen of the mobile scanner application         *)
(* (src/app/(tabs)/(4-generator)/index.tsx): the check-digit helpers, the  *)
(* CODE_FORMATS registry with its validation predicates, and the handlers  *)
(* of GeneratorScreen.                                                     *)
(*                                                                         *)
(* A JavaScript string is a sequence of one-character strings.  A          *)
(* JavaScript number is <<n>>, and NaN is <<>>.  An absent optional field  *)
(* of a CodeFormat is Undefined.                                           *)
(***************************************************************************)
EXTENDS Integers, Sequences, FiniteSets, TLC

VARIABLES
    \* the contents of the array CODE_FORMATS names
    codeFormats,
    \* GeneratorScreen state (useState hooks)
    selectedFormat, inputValue, generatedValue, barcodeError,
    showPicker, tempSelectedId,
    \* what the handler that ran last showed with Alert.alert:
    \* <<title, message>>, or <<>> when it showed nothing
    alert,
    \* the calls of saveGenerationToHistory the handler that ran last made:
    \* <<[data, format, formatName]>>, or <<>> when it made none
    saveCalls,
    \* application of the helper functions: the input drawn, the current
    \* argument, the functions applied so far and the last value returned
    callIn, callArg, callLog, callRet,
    \* the external QR encoder: for every value, what QRCodeUtil.create does
    qrEncoder,
    \* the QRCode component: what its useMemo hook holds, <<value, modules>>
    \* or <<>> while it is not mounted; the number of renders made so far;
    \* the values the encoder was called with so far; what its last render
    \* returned
    qrMemo, qrRenders, qrCalls, qrView,
    \* AsyncStorage: for each key the array stored under it, <<>> when the
    \* key is absent
    storage,
    \* the calls of the history functions in flight, each with the await it
    \* stands at; Date.now() as it was read last
    calls, now,
    \* the history functions called so far; whether one was called while
    \* another was in flight; the storage accesses that have failed
    opLog, overlapped, failures,
    \* ScannerScreen: the settings its render read
    settings,
    \* ScannerScreen state (useState hooks) as of the last render
    scanned, scannedData, scannedType, scannedItems, showMultiResults,
    selectedItem,
    \* scannedDataSetRef.current
    scannedDataSet,
    \* the state updates made since the last render; the handlers that
    \* stand at an await
    pending, handlers,
    \* the barcodes the camera has reported so far; the data of the camera
    \* callbacks the single-scan mode accepted since the last reset
    scans, accepted,
    \* ScanHistoryScreen: the requireAuthForHistory setting its render read
    \* and whether its tab has the focus
    requireAuth, focused,
    \* ScanHistoryScreen state (useState hooks) and hasAttemptedAuthRef.current
    history, isAuthenticated, isAuthenticating, hasAttemptedAuthRef,
    \* the calls of performAuth and loadHistory that stand at an await
    prompts,
    \* the visits of the tab and the calls of performAuth so far; the visit
    \* that started the authentication that succeeded last
    visits, attempts, authVisit

screenVars == <<codeFormats, selectedFormat, inputValue, generatedValue, barcodeError,
                showPicker, tempSelectedId, alert, saveCalls>>
callVars == <<callIn, callArg, callLog, callRet>>
qrVars == <<qrEncoder, qrMemo, qrRenders, qrCalls, qrView>>
storeVars == <<storage, calls, now, opLog, overlapped, failures>>
viewVars == <<scanned, scannedData, scannedType, scannedItems,
              showMultiResults, selectedItem>>
scannerVars == <<settings, viewVars, scannedDataSet, pending, handlers,
                 scans, accepted>>
authVars == <<requireAuth, focused, history, isAuthenticated, isAuthenticating,
              hasAttemptedAuthRef, prompts, visits, attempts, authVisit>>
appVars == <<storeVars, scannerVars, authVars>>
vars == <<codeFormats, selectedFormat, inputValue, generatedValue, barcodeError,
          showPicker, tempSelectedId, alert, saveCalls,
          callIn, callArg, callLog, callRet,
          qrEncoder, qrMemo, qrRenders, qrCalls, qrView,
          storage, calls, now, opLog, overlapped, failures,
          settings, scanned, scannedData, scannedType, scannedItems,
          showMultiResults, selectedItem, scannedDataSet, pending, handlers,
          scans, accepted,
          requireAuth, focused, history, isAuthenticated, isAuthenticating,
          hasAttemptedAuthRef, prompts, visits, attempts, authVisit>>

----------------------------------------------------------------------------
(* Bounds of the model *)

\* free characters appended to a stem when the inputs of the helper
\* functions are drawn
MaxTail == 2

\* length of the free texts the validations are applied to
MaxText == 4

\* side length of the module matrices the QR encoder returns
MaxModules == 2

\* renders of the QRCode component
MaxRenders == 3

\* calls of the history functions in one run
MaxOps == 2

\* visits of the history tab and calls of performAuth in one run
MaxVisits == 2
MaxAttempts == 2

\* barcodes reported by the camera in one run
MaxScans == 2

\* accesses to the storage that fail in one run
MaxFailures == 1

\* pixel sizes and module counts the render sizing is applied to
MaxPixels == 200
MaxModuleCount == 25

----------------------------------------------------------------------------
(* JavaScript strings and numbers *)

Undefined == "undefined"
\* an absent maxLength; a present one is <<n>>
NoMaxLength == <<>>
NaN == <<>>
Num(n) == <<n>>
IsNaN(x) == x = NaN

DigitChars == <<"0", "1", "2", "3", "4", "5", "6", "7", "8", "9">>
IsDigit(c) == \E i \in 1..10 : DigitChars[i] = c
DigitVal(c) == (CHOOSE i \in 1..10 : DigitChars[i] = c) - 1
IsWhitespace(c) == c = " "

\* value[i] with a 0-based index; undefined past the end
CharAt(value, i) == IF i >= 0 /\ i < Len(value) THEN value[i + 1] ELSE Undefined

\* the pattern without its end anchor: /^\d{lo,}/
TestDigits_NoEnd(value, lo, hi) ==
    /\ Len(value) >= lo
    /\ \A i \in 1..lo : IsDigit(value[i])

\* /^\d{lo,hi}$/.test(value)
TestDigits(value, lo, hi) ==
    /\ Len(value) >= lo
    /\ Len(value) <= hi
    /\ \A i \in 1..Len(value) : IsDigit(value[i])

\* /^\d+$/.test(value)
TestDigitsPlus(value) ==
    /\ Len(value) >= 1
    /\ \A i \in 1..Len(value) : IsDigit(value[i])

\* String.prototype.trim
RECURSIVE TrimStart(_)
TrimStart(s) ==
    IF s # <<>> /\ IsWhitespace(Head(s)) THEN TrimStart(Tail(s)) ELSE s

RECURSIVE TrimEnd(_)
TrimEnd(s) ==
    IF s # <<>> /\ IsWhitespace(s[Len(s)])
    THEN TrimEnd(SubSeq(s, 1, Len(s) - 1)) ELSE s

\* the input taken as typed
trim_None(s) == s

trim(s) == TrimEnd(TrimStart(s))

\* the longest prefix of s made of digits
RECURSIVE DigitPrefix(_)
DigitPrefix(s) ==
    IF s # <<>> /\ IsDigit(Head(s)) THEN <<Head(s)>> \o DigitPrefix(Tail(s))
    ELSE <<>>

\* The value of a run of digits.  A JavaScript number holds every value met
\* here exactly; the model's integers are 32 bits wide, so the value stops
\* growing once it is past 100000000.  It is only ever compared with 3 and
\* 131070, which this leaves as they are.
RECURSIVE DigitsValue(_, _)
DigitsValue(s, acc) ==
    IF s = <<>> THEN acc
    ELSE IF acc >= 100000000 THEN DigitsValue(Tail(s), acc)
    ELSE DigitsValue(Tail(s), acc * 10 + DigitVal(Head(s)))

\* Number.parseInt(s, 10): leading white space is skipped, a sign is read,
\* then the longest run of digits; NaN when there is no digit
parseInt(s) ==
    LET t == TrimStart(s)
        neg == t # <<>> /\ Head(t) = "-"
        u == IF t # <<>> /\ Head(t) \in {"-", "+"} THEN Tail(t) ELSE t
        d == DigitPrefix(u)
    IN IF d = <<>> THEN NaN
       ELSE Num(IF neg THEN 0 - DigitsValue(d, 0) ELSE DigitsValue(d, 0))

\* Number.parseInt(value[i], 10)
parseIntAt(value, i) ==
    LET c == CharAt(value, i)
    IN IF c = Undefined THEN NaN ELSE parseInt(<<c>>)

\* arithmetic on numbers, NaN propagating
Plus(a, b) == IF IsNaN(a) \/ IsNaN(b) THEN NaN ELSE Num(a[1] + b[1])
Times(a, k) == IF IsNaN(a) THEN NaN ELSE Num(a[1] * k)
\* (10 - (sum % 10)) % 10
CheckDigitOf(sum) == IF IsNaN(sum) THEN NaN ELSE Num((10 - (sum[1] % 10)) % 10)
\* a === b on numbers
StrictEq(a, b) == ~IsNaN(a) /\ ~IsNaN(b) /\ a = b

\* String(n) for an integer n
RECURSIVE NatToStr(_)
NatToStr(n) ==
    IF n < 10 THEN <<DigitChars[n + 1]>>
    ELSE NatToStr(n \div 10) \o <<DigitChars[(n % 10) + 1]>>

ToStr(x) ==
    IF IsNaN(x) THEN <<"N", "a", "N">>
    ELSE IF x[1] < 0 THEN <<"-">> \o NatToStr(0 - x[1]) ELSE NatToStr(x[1])

----------------------------------------------------------------------------
(* EAN/UPC checksum validation helpers *)

\* the loop of calculateEAN13Checksum: weight 1 at even index, 3 at odd
RECURSIVE EAN13Loop(_, _, _)
EAN13Loop(digits, i, sum) ==
    IF i >= 12 THEN sum
    ELSE LET digit == parseIntAt(digits, i)
         IN EAN13Loop(digits, i + 1,
                      Plus(sum, IF i % 2 = 0 THEN digit ELSE Times(digit, 3)))

\* the loop of isValidEAN8, isValidUPCA, isValidITF14 over the first n
\* characters: weight 3 at even index, 1 at odd
RECURSIVE Weight31Loop(_, _, _, _)
Weight31Loop(value, n, i, sum) ==
    IF i >= n THEN sum
    ELSE LET digit == parseIntAt(value, i)
         IN Weight31Loop(value, n, i + 1,
                         Plus(sum, IF i % 2 = 0 THEN Times(digit, 3) ELSE digit))

\* weight 1 at even index, 3 at odd, over the first n characters
RECURSIVE Weight13Loop(_, _, _, _)
Weight13Loop(value, n, i, sum) ==
    IF i >= n THEN sum
    ELSE LET digit == parseIntAt(value, i)
         IN Weight13Loop(value, n, i + 1,
                         Plus(sum, IF i % 2 = 0 THEN digit ELSE Times(digit, 3)))

\* the check digit with the two weights exchanged
calculateEAN13Checksum_Weight31(digits) ==
    CheckDigitOf(Weight31Loop(digits, 12, 0, Num(0)))

\* the check digit without its last "% 10": 10 where 0 is due
calculateEAN13Checksum_NoFinalMod(digits) ==
    LET sum == EAN13Loop(digits, 0, Num(0))
    IN IF IsNaN(sum) THEN NaN ELSE Num(10 - (sum[1] % 10))

calculateEAN13Checksum(digits) ==
    LET sum == EAN13Loop(digits, 0, Num(0))
    IN CheckDigitOf(sum)

isValidEAN13(value) ==
    IF ~TestDigits(value, 13, 13) THEN FALSE
    ELSE LET checkDigit == parseIntAt(value, 12)
         IN StrictEq(calculateEAN13Checksum(value), checkDigit)

\* isValidEAN8 weighting like calculateEAN13Checksum
isValidEAN8_Weight13(value) ==
    IF ~TestDigits(value, 8, 8) THEN FALSE
    ELSE StrictEq(CheckDigitOf(Weight13Loop(value, 7, 0, Num(0))),
                  parseIntAt(value, 7))

isValidEAN8(value) ==
    IF ~TestDigits(value, 8, 8) THEN FALSE
    ELSE LET checkDigit == CheckDigitOf(Weight31Loop(value, 7, 0, Num(0)))
         IN StrictEq(checkDigit, parseIntAt(value, 7))

isValidUPCA(value) ==
    IF ~TestDigits(value, 12, 12) THEN FALSE
    ELSE LET checkDigit == CheckDigitOf(Weight31Loop(value, 11, 0, Num(0)))
         IN StrictEq(checkDigit, parseIntAt(value, 11))

\* isValidITF14 weighting like calculateEAN13Checksum
isValidITF14_Weight13(value) ==
    IF ~TestDigits(value, 14, 14) THEN FALSE
    ELSE StrictEq(CheckDigitOf(Weight13Loop(value, 13, 0, Num(0))),
                  parseIntAt(value, 13))

isValidITF14(value) ==
    IF ~TestDigits(value, 14, 14) THEN FALSE
    ELSE LET checkDigit == CheckDigitOf(Weight31Loop(value, 13, 0, Num(0)))
         IN StrictEq(checkDigit, parseIntAt(value, 13))

\* isValidUPCE without the test of the first digit of 7 digits
isValidUPCE_SevenFree(value) ==
    IF ~TestDigits(value, 6, 8) THEN FALSE
    ELSE IF Len(value) = 8 /\ CharAt(value, 0) # "0" /\ CharAt(value, 0) # "1"
    THEN FALSE
    ELSE TRUE

isValidUPCE(value) ==
    IF ~TestDigits(value, 6, 8) THEN FALSE
    ELSE IF Len(value) = 8 /\ CharAt(value, 0) # "0" /\ CharAt(value, 0) # "1"
    THEN FALSE
    ELSE IF Len(value) = 7 /\ CharAt(value, 0) # "0" /\ CharAt(value, 0) # "1"
    THEN FALSE
    ELSE TRUE

----------------------------------------------------------------------------
(* CODE_FORMATS: the registry of code formats *)

CODE_FORMATS == <<
    [id |-> "qr", name |-> "QR Code", type |-> "qr", format |-> Undefined,
     maxLength |-> NoMaxLength, keyboardType |-> "default",
     hasValidation |-> FALSE, validationMessage |-> Undefined],
    [id |-> "code128", name |-> "CODE 128", type |-> "barcode",
     format |-> "CODE128", maxLength |-> NoMaxLength,
     keyboardType |-> "ascii-capable", hasValidation |-> TRUE,
     validationMessage |-> "CODE 128 requires 1-80 characters"],
    [id |-> "ean13", name |-> "EAN-13", type |-> "barcode",
     format |-> "EAN13", maxLength |-> <<13>>, keyboardType |-> "numeric",
     hasValidation |-> TRUE,
     validationMessage |->
        "EAN-13 requires 12 digits (auto checksum) or 13 with valid checksum"],
    [id |-> "ean8", name |-> "EAN-8", type |-> "barcode",
     format |-> "EAN8", maxLength |-> <<8>>, keyboardType |-> "numeric",
     hasValidation |-> TRUE,
     validationMessage |->
        "EAN-8 requires 7 digits (auto checksum) or 8 with valid checksum"],
    [id |-> "upca", name |-> "UPC-A", type |-> "barcode",
     format |-> "UPC", maxLength |-> <<12>>, keyboardType |-> "numeric",
     hasValidation |-> TRUE,
     validationMessage |->
        "UPC-A requires 11 digits (auto checksum) or 12 with valid checksum"],
    [id |-> "upce", name |-> "UPC-E", type |-> "barcode",
     format |-> "UPCE", maxLength |-> <<8>>, keyboardType |-> "numeric",
     hasValidation |-> TRUE,
     validationMessage |->
        "UPC-E requires 6-8 digits, must start with 0 or 1 if 7-8 digits"],
    [id |-> "code39", name |-> "CODE 39", type |-> "barcode",
     format |-> "CODE39", maxLength |-> NoMaxLength,
     keyboardType |-> "ascii-capable", hasValidation |-> TRUE,
     validationMessage |-> "CODE 39 supports A-Z, 0-9, and -. $/+%"],
    [id |-> "itf14", name |-> "ITF-14", type |-> "barcode",
     format |-> "ITF14", maxLength |-> <<14>>, keyboardType |-> "numeric",
     hasValidation |-> TRUE,
     validationMessage |->
        "ITF-14 requires 13 digits (auto checksum) or 14 with valid checksum"],
    [id |-> "itf", name |-> "ITF", type |-> "barcode",
     format |-> "ITF", maxLength |-> NoMaxLength, keyboardType |-> "numeric",
     hasValidation |-> TRUE,
     validationMessage |-> "ITF requires an even number of digits"],
    [id |-> "msi", name |-> "MSI", type |-> "barcode",
     format |-> "MSI", maxLength |-> NoMaxLength, keyboardType |-> "numeric",
     hasValidation |-> TRUE,
     validationMessage |-> "MSI requires only digits"],
    [id |-> "pharmacode", name |-> "Pharmacode", type |-> "barcode",
     format |-> "pharmacode", maxLength |-> NoMaxLength,
     keyboardType |-> "numeric", hasValidation |-> TRUE,
     validationMessage |->
        "Pharmacode requires a number between 3 and 131070"],
    [id |-> "codabar", name |-> "Codabar", type |-> "barcode",
     format |-> "codabar", maxLength |-> NoMaxLength,
     keyboardType |-> "ascii-capable", hasValidation |-> TRUE,
     validationMessage |-> "Codabar must start/end with A-D"]
>>

FormatIds == {CODE_FORMATS[i].id : i \in 1..Len(CODE_FORMATS)}

\* CODE_FORMATS.find((f) => f.id === id): <<the first match>>, or <<>> for
\* undefined
find(id) ==
    IF \E i \in 1..Len(codeFormats) : codeFormats[i].id = id
    THEN <<codeFormats[CHOOSE i \in 1..Len(codeFormats) :
                         /\ codeFormats[i].id = id
                         /\ \A j \in 1..(i - 1) : codeFormats[j].id # id]>>
    ELSE <<>>

UpperChars == {"A", "B", "C", "D", "E", "F", "G", "H", "I", "J", "K", "L", "M",
               "N", "O", "P", "Q", "R", "S", "T", "U", "V", "W", "X", "Y", "Z"}
LowerChars == {"a", "b", "c", "d", "e", "f", "g", "h", "i", "j", "k", "l", "m",
               "n", "o", "p", "q", "r", "s", "t", "u", "v", "w", "x", "y", "z"}

\* (v) => v.length > 0 && v.length <= 80
validation_code128(v) == Len(v) > 0 /\ Len(v) <= 80

\* (v) => /^\d{12,13}$/.test(v) && (v.length === 12 || isValidEAN13(v))
validation_ean13(v) == TestDigits(v, 12, 13) /\ (Len(v) = 12 \/ isValidEAN13(v))

\* (v) => /^\d{7,8}$/.test(v) && (v.length === 7 || isValidEAN8(v))
validation_ean8(v) == TestDigits(v, 7, 8) /\ (Len(v) = 7 \/ isValidEAN8(v))

\* the UPC-A validation checking the check digit of every input
validation_upca_NoShortForm(v) == TestDigits(v, 11, 12) /\ isValidUPCA(v)

\* (v) => /^\d{11,12}$/.test(v) && (v.length === 11 || isValidUPCA(v))
validation_upca(v) == TestDigits(v, 11, 12) /\ (Len(v) = 11 \/ isValidUPCA(v))

\* (v) => /^[A-Z0-9\-. $/+%]+$/i.test(v)
validation_code39(v) ==
    /\ Len(v) >= 1
    /\ \A i \in 1..Len(v) :
          \/ v[i] \in UpperChars \cup LowerChars
          \/ IsDigit(v[i])
          \/ v[i] \in {"-", ".", " ", "$", "/", "+", "%"}

\* (v) => /^\d{13,14}$/.test(v) && (v.length === 13 || isValidITF14(v))
validation_itf14(v) == TestDigits(v, 13, 14) /\ (Len(v) = 13 \/ isValidITF14(v))

\* the ITF validation without the test of the length
validation_itf_AnyCount(v) == TestDigitsPlus(v)

\* (v) => /^\d+$/.test(v) && v.length % 2 === 0
validation_itf(v) == TestDigitsPlus(v) /\ Len(v) % 2 = 0

\* (v) => /^\d+$/.test(v)
validation_msi(v) == TestDigitsPlus(v)

\* (v) => { const num = Number.parseInt(v, 10);
\*          return !Number.isNaN(num) && num >= 3 && num <= 131070; }
validation_pharmacode(v) ==
    LET num == parseInt(v)
    IN ~IsNaN(num) /\ num[1] >= 3 /\ num[1] <= 131070

\* the Codabar pattern with a body that may be empty:
\* /^[A-Da-d][0-9\-$:/.+]*[A-Da-d]$/
validation_codabar_EmptyBody(v) ==
    /\ Len(v) >= 2
    /\ v[1] \in {"A", "B", "C", "D", "a", "b", "c", "d"}
    /\ v[Len(v)] \in {"A", "B", "C", "D", "a", "b", "c", "d"}
    /\ \A i \in 2..(Len(v) - 1) :
          IsDigit(v[i]) \/ v[i] \in {"-", "$", ":", "/", ".", "+"}

\* (v) => /^[A-Da-d][0-9\-$:/.+]+[A-Da-d]$/.test(v)
validation_codabar(v) ==
    /\ Len(v) >= 3
    /\ v[1] \in {"A", "B", "C", "D", "a", "b", "c", "d"}
    /\ v[Len(v)] \in {"A", "B", "C", "D", "a", "b", "c", "d"}
    /\ \A i \in 2..(Len(v) - 1) :
          IsDigit(v[i]) \/ v[i] \in {"-", "$", ":", "/", ".", "+"}

\* format.validation(v), for a format that has one
validation(format, v) ==
    CASE format.id = "code128" -> validation_code128(v)
      [] format.id = "ean13" -> validation_ean13(v)
      [] format.id = "ean8" -> validation_ean8(v)
      [] format.id = "upca" -> validation_upca(v)
      [] format.id = "upce" -> isValidUPCE(v)
      [] format.id = "code39" -> validation_code39(v)
      [] format.id = "itf14" -> validation_itf14(v)
      [] format.id = "itf" -> validation_itf(v)
      [] format.id = "msi" -> validation_msi(v)
      [] format.id = "pharmacode" -> validation_pharmacode(v)
      [] format.id = "codabar" -> validation_codabar(v)

----------------------------------------------------------------------------
(* The inputs drawn *)

\* The EAN-13 number 4006381333931 followed by a digit
EANStem ==
    <<"4", "0", "0", "6", "3", "8", "1", "3", "3", "3", "9", "3", "1", "7">>

\* The inputs of the helper functions: a prefix of a stem followed by at
\* most MaxTail free characters.  The second stem has no two neighbouring
\* digits equal, the third leads to the ends of the Pharmacode range.
Stems == {
    EANStem,
    <<"0", "1", "2", "3", "4", "5", "6", "7", "8", "9", "0", "5", "2", "8">>,
    <<"1", "3", "1", "0", "7">> }

TailChars == {DigitChars[i] : i \in 1..10} \cup {"a", " "}

RECURSIVE SeqsUpTo(_, _)
SeqsUpTo(S, n) ==
    IF n = 0 THEN {<<>>}
    ELSE LET shorter == SeqsUpTo(S, n - 1)
         IN shorter \cup {Append(t, c) : t \in shorter, c \in S}

StemPrefixes ==
    UNION {{SubSeq(stem, 1, k) : k \in 0..Len(stem)} : stem \in Stems}

CallInputs ==
    {p \o t : p \in StemPrefixes, t \in SeqsUpTo(TailChars, MaxTail)}

\* Free texts: a start letter of Codabar in either case, a letter that is
\* none, a digit, a symbol of the Codabar body and a symbol that is none;
\* and the two texts of the Codabar examples.
TextChars == {"A", "d", "E", "1", "+", "%"}

TextInputs ==
    SeqsUpTo(TextChars, MaxText)
        \cup {<<"A", "1", "2", "3", "4", "B">>, <<"1", "2", "3", "4">>}

\* The texts typed into the text field while a format is selected: for
\* every format the empty text and a blank, and texts its validation
\* accepts and rejects; for a format with a check digit the short form,
\* the full form with the right and with a wrong check digit, and a text
\* past maxLength.
P(k) == SubSeq(EANStem, 1, k)

ScreenInputs(id) ==
    {<<>>, <<" ">>} \cup
    CASE id = "qr" -> {<<"a">>, P(4)}
      [] id = "code128" -> {<<"a">>, P(4)}
      [] id = "ean13" ->
            {P(11), P(12), P(13), P(12) \o <<"0">>, P(14), P(11) \o <<"a">>}
      [] id = "ean8" ->
            {P(6), P(7), P(7) \o <<"2">>, P(8), P(9), P(6) \o <<"a">>,
             <<" ", " ", " ", " ", " ", " ", " ", " ", " ">>}
      [] id = "upca" ->
            {P(10), P(11), P(11) \o <<"0">>, P(12), P(13), P(10) \o <<"a">>}
      [] id = "upce" -> {P(5), P(6), <<"0">> \o P(6), P(7), P(8), P(9)}
      [] id = "code39" -> {<<"A", "1">>, <<"a", "1">>, <<"a", "*">>}
      [] id = "itf14" ->
            {P(12), P(13), P(13) \o <<"4">>, P(14), P(14) \o <<"0">>,
             P(12) \o <<"a">>}
      [] id = "itf" -> {P(3), P(4)}
      [] id = "msi" -> {P(3), P(2) \o <<"a">>}
      [] id = "pharmacode" ->
            {<<"2">>, <<"3">>, <<"5", "a">>,
             <<"1", "3", "1", "0", "7", "0">>, <<"1", "3", "1", "0", "7", "1">>}
      [] id = "codabar" ->
            {<<"A", "1", "2", "3", "4", "B">>, <<"1", "2", "3", "4">>,
             <<"a", "1", "2", "b">>}

----------------------------------------------------------------------------
(* QRCode: the custom QR code component *)

\* size = 200
DefaultSize == 200

\* what a render returns when it renders nothing, and the modules of an
\* encoder that threw
Null == <<"null">>

\* QRCodeUtil.create throwing
Throws == <<"throws">>

\* What QRCodeUtil.create can do: throw, or return qr with qr.modules.size
\* and qr.modules.data, a flat array of size * size entries 0 or 1.  The
\* entry data[k] of the code is data[k + 1] here.
RECURSIVE BitArrays(_)
BitArrays(n) ==
    IF n = 0 THEN {<<>>}
    ELSE {Append(d, b) : d \in BitArrays(n - 1), b \in {0, 1}}

EncoderResults ==
    {Throws} \cup
    UNION {{<<"qr", [size |-> n, data |-> d]>> : d \in BitArrays(n * n)} :
              n \in 1..MaxModules}

\* The values the component is rendered with: a text, and a text past the
\* capacity of a QR code, for which the encoder throws
QRText == <<"a">>
QRLongText == <<"a", "a", "a">>
QRValues == {QRText, QRLongText}

\* the matrix read by columns: data[col * moduleSize + row]
matrix_Transposed(qr) ==
    [row \in 1..qr.size |->
        [col \in 1..qr.size |->
            qr.data[(col - 1) * qr.size + (row - 1) + 1] = 1]]

\* the loops filling matrix: rowData.push(data[row * moduleSize + col] === 1)
matrix(qr) ==
    [row \in 1..qr.size |->
        [col \in 1..qr.size |->
            qr.data[(row - 1) * qr.size + (col - 1) + 1] = 1]]

\* the function given to useMemo: try { ... return matrix } catch
\* { return null }
modules(value) ==
    LET result == qrEncoder[value]
    IN IF result = Throws THEN Null ELSE <<"matrix", matrix(result[2])>>

\* the size of a cell rounded up
cellSize_Ceil(size, moduleCount) == (size + moduleCount - 1) \div moduleCount

\* Math.floor(size / moduleCount)
cellSize(size, moduleCount) == size \div moduleCount

\* cellSize * moduleCount
actualSize(size, moduleCount) == cellSize(size, moduleCount) * moduleCount

\* what QRCode returns: null, or the View of the rows of cells
QRCodeView(mods, size) ==
    IF mods = Null THEN Null
    ELSE LET moduleCount == Len(mods[2])
         IN <<"View",
              [width |-> actualSize(size, moduleCount),
               height |-> actualSize(size, moduleCount),
               rowHeight |-> cellSize(size, moduleCount),
               cellWidth |-> cellSize(size, moduleCount),
               cellHeight |-> cellSize(size, moduleCount) + 1,
               backgroundColor |->
                   [row \in 1..moduleCount |->
                       [col \in 1..Len(mods[2][row]) |->
                           IF mods[2][row][col] THEN "#000" ELSE "#fff"]]]>>

\* useMemo with no dependencies kept: the function runs in every render
memoHit_Never(value) == FALSE

\* useMemo(..., [value]): the value held is kept when the dependency is the
\* one of the render before
memoHit(value) == qrMemo # <<>> /\ qrMemo[1] = value

\* the state while the component is not mounted
QRIdle ==
    /\ qrEncoder = [v \in QRValues |-> Throws]
    /\ qrMemo = <<>>
    /\ qrRenders = 0
    /\ qrCalls = <<>>
    /\ qrView = <<"none">>

\* a render of <QRCode value={value} size={200} />
QRCode ==
    \E value \in QRValues :
        /\ qrRenders < MaxRenders
        /\ qrRenders' = qrRenders + 1
        /\ LET mods == IF memoHit(value) THEN qrMemo[2] ELSE modules(value)
           IN /\ qrMemo' = <<value, mods>>
              /\ qrCalls' = IF memoHit(value) THEN qrCalls
                            ELSE Append(qrCalls, value)
              /\ qrView' = QRCodeView(mods, DefaultSize)
        /\ UNCHANGED qrEncoder
        /\ UNCHANGED <<screenVars, callVars, appVars>>

\* the screen stops rendering the component: the hook's state is dropped
QRCode_unmount ==
    /\ qrMemo # <<>>
    /\ qrMemo' = <<>>
    /\ qrView' = <<"none">>
    /\ UNCHANGED <<qrEncoder, qrRenders, qrCalls>>
    /\ UNCHANGED <<screenVars, callVars, appVars>>

CallsIdle ==
    /\ callIn = <<>>
    /\ callArg = <<>>
    /\ callLog = <<>>
    /\ callRet = <<"none">>

----------------------------------------------------------------------------
(* scanHistory.ts and generationHistory.ts: the stored histories *)

SCAN_HISTORY_KEY == "scanHistory"
GENERATION_HISTORY_KEY == "generationHistory"

\* .slice(0, 100)
HistoryLimit == 100

\* The items.  `scan_${timestamp}` is <<"scan", timestamp>> and
\* `gen_${timestamp}` is <<"gen", timestamp>>; formattedDate, the timestamp
\* in words, is left out.
ScanHistoryItem(data, type, timestamp) ==
    [id |-> <<"scan", timestamp>>, data |-> data, type |-> type,
     timestamp |-> timestamp]

GenerationHistoryItem(data, format, formatName, timestamp) ==
    [id |-> <<"gen", timestamp>>, data |-> data, format |-> format,
     formatName |-> formatName, timestamp |-> timestamp]

\* a slice keeping the entries at the end, the oldest ones
slice_Last(items) ==
    IF Len(items) <= HistoryLimit THEN items
    ELSE SubSeq(items, Len(items) - HistoryLimit + 1, Len(items))

\* updatedHistory.slice(0, 100)
slice(items) ==
    IF Len(items) <= HistoryLimit THEN items
    ELSE SubSeq(items, 1, HistoryLimit)

\* no filter: the entries of the same data are kept
filterScan_KeepAll(items, data) ==
    items

\* existingHistory.filter((item) => item.data !== data)
filterScan(items, data) ==
    SelectSeq(items, LAMBDA item : item.data # data)

\* existingHistory.filter(
\*   (item) => !(item.data === data && item.format === format))
filterGeneration(items, data, format) ==
    SelectSeq(items, LAMBDA item : ~(item.data = data /\ item.format = format))

\* existingHistory.filter((item) => item.id !== id)
filterId(items, id) ==
    SelectSeq(items, LAMBDA item : item.id # id)

\* limitedHistory of saveScanToHistory
limitedScanHistory(existingHistory, data, type, timestamp) ==
    slice(<<ScanHistoryItem(data, type, timestamp)>>
              \o filterScan(existingHistory, data))

\* limitedHistory of saveGenerationToHistory
limitedGenerationHistory(existingHistory, data, format, formatName, timestamp) ==
    slice(<<GenerationHistoryItem(data, format, formatName, timestamp)>>
              \o filterGeneration(existingHistory, data, format))

\* The histories a run starts from: k scans and k generations stored one
\* after another at the times 1..k, the one of time t with the text of t as
\* its data, newest first.
RECURSIVE StoredScans(_)
StoredScans(k) ==
    IF k = 0 THEN <<>>
    ELSE <<ScanHistoryItem(NatToStr(k), "qr", k)>> \o StoredScans(k - 1)

RECURSIVE StoredGenerations(_)
StoredGenerations(k) ==
    IF k = 0 THEN <<>>
    ELSE <<GenerationHistoryItem(NatToStr(k), "qr", "QR Code", k)>>
             \o StoredGenerations(k - 1)

StoredSizes == {0, HistoryLimit}

\* The arguments the functions are called with: the data of the oldest entry
\* stored and a new one (a new format of it for a generation); for a delete
\* the id of the first entry stored.
SaveScanArgs == {<<(<<"1">>), "ean13">>, <<(<<"a">>), "qr">>}

SaveGenerationArgs ==
    {<<(<<"1">>), "qr", "QR Code">>, <<(<<"1">>), "EAN13", "EAN-13">>}

DeleteArgs(key) ==
    {<<storage[key][i].id>> : i \in {1} \cap DOMAIN storage[key]}

\* a function is called: it runs to its first await
Invoke(fn, args, pc) ==
    /\ Len(opLog) < MaxOps
    /\ calls' = Append(calls, [fn |-> fn, args |-> args, pc |-> pc,
                               value |-> <<>>])
    /\ opLog' = Append(opLog, [fn |-> fn, args |-> args])
    /\ overlapped' = (overlapped \/ calls # <<>>)
    /\ UNCHANGED <<storage, now, failures>>

\* a screen calls the function, awaiting its return or not
Called(fn, args, pc) ==
    /\ Invoke(fn, args, pc)
    /\ UNCHANGED <<screenVars, callVars, qrVars, scannerVars, authVars>>

\* the calls without the one at index i
Without(i) == SubSeq(calls, 1, i - 1) \o SubSeq(calls, i + 1, Len(calls))

\* whether an access to the storage throws
Outcomes == IF failures < MaxFailures THEN BOOLEAN ELSE {FALSE}

\* getScanHistory / getGenerationHistory: what is stored, or [] when
\* AsyncStorage.getItem throws
getHistory(key, throws) == IF throws THEN <<>> ELSE storage[key]

\* the call at index i resumes after its await of getHistory with the array
\* to store; it stands at its await of AsyncStorage.setItem
AfterGet(i, fn, throws, value) ==
    /\ i \in 1..Len(calls)
    /\ calls[i].fn = fn
    /\ calls[i].pc = "getItem"
    /\ calls' = [calls EXCEPT ![i].pc = "setItem", ![i].value = value]
    /\ failures' = failures + (IF throws THEN 1 ELSE 0)
    /\ UNCHANGED <<storage, opLog, overlapped>>
    /\ UNCHANGED <<screenVars, callVars, qrVars, scannerVars, authVars>>

\* the call at index i resumes after its await of AsyncStorage.setItem, which
\* has stored the array or has thrown, and returns
AfterSet(i, fn, key, throws) ==
    /\ i \in 1..Len(calls)
    /\ calls[i].fn = fn
    /\ calls[i].pc = "setItem"
    /\ storage' = IF throws THEN storage
                  ELSE [storage EXCEPT ![key] = calls[i].value]
    /\ calls' = Without(i)
    /\ failures' = failures + (IF throws THEN 1 ELSE 0)
    /\ UNCHANGED <<now, opLog, overlapped>>
    /\ UNCHANGED <<screenVars, callVars, qrVars, scannerVars, authVars>>

\* the call at index i resumes after its await of AsyncStorage.removeItem
AfterRemove(i, fn, key, throws) ==
    /\ i \in 1..Len(calls)
    /\ calls[i].fn = fn
    /\ calls[i].pc = "removeItem"
    /\ storage' = IF throws THEN storage ELSE [storage EXCEPT ![key] = <<>>]
    /\ calls' = Without(i)
    /\ failures' = failures + (IF throws THEN 1 ELSE 0)
    /\ UNCHANGED <<now, opLog, overlapped>>
    /\ UNCHANGED <<screenVars, callVars, qrVars, scannerVars, authVars>>

\* Date.now(): the clock has not gone back since it was read last
DateNow(timestamp) ==
    /\ timestamp \in {now, now + 1}
    /\ now' = timestamp

saveScanToHistory ==
    \E args \in SaveScanArgs : Called("saveScanToHistory", args, "getItem")

saveScanToHistory_getScanHistory ==
    \E i \in 1..Len(calls), throws \in Outcomes, timestamp \in {now, now + 1} :
        /\ DateNow(timestamp)
        /\ AfterGet(i, "saveScanToHistory", throws,
                    limitedScanHistory(getHistory(SCAN_HISTORY_KEY, throws),
                                       calls[i].args[1], calls[i].args[2],
                                       timestamp))

saveScanToHistory_setItem ==
    \E i \in 1..Len(calls), throws \in Outcomes :
        AfterSet(i, "saveScanToHistory", SCAN_HISTORY_KEY, throws)

deleteScanFromHistory ==
    \E args \in DeleteArgs(SCAN_HISTORY_KEY) :
        Called("deleteScanFromHistory", args, "getItem")

deleteScanFromHistory_getScanHistory ==
    \E i \in 1..Len(calls), throws \in Outcomes :
        /\ AfterGet(i, "deleteScanFromHistory", throws,
                    filterId(getHistory(SCAN_HISTORY_KEY, throws),
                             calls[i].args[1]))
        /\ UNCHANGED now

deleteScanFromHistory_setItem ==
    \E i \in 1..Len(calls), throws \in Outcomes :
        AfterSet(i, "deleteScanFromHistory", SCAN_HISTORY_KEY, throws)

clearScanHistory ==
    Called("clearScanHistory", <<>>, "removeItem")

clearScanHistory_removeItem ==
    \E i \in 1..Len(calls), throws \in Outcomes :
        AfterRemove(i, "clearScanHistory", SCAN_HISTORY_KEY, throws)

saveGenerationToHistory ==
    \E args \in SaveGenerationArgs :
        Called("saveGenerationToHistory", args, "getItem")

saveGenerationToHistory_getGenerationHistory ==
    \E i \in 1..Len(calls), throws \in Outcomes, timestamp \in {now, now + 1} :
        /\ DateNow(timestamp)
        /\ AfterGet(i, "saveGenerationToHistory", throws,
                    limitedGenerationHistory(
                        getHistory(GENERATION_HISTORY_KEY, throws),
                        calls[i].args[1], calls[i].args[2], calls[i].args[3],
                        timestamp))

saveGenerationToHistory_setItem ==
    \E i \in 1..Len(calls), throws \in Outcomes :
        AfterSet(i, "saveGenerationToHistory", GENERATION_HISTORY_KEY, throws)

deleteGenerationFromHistory ==
    \E args \in DeleteArgs(GENERATION_HISTORY_KEY) :
        Called("deleteGenerationFromHistory", args, "getItem")

deleteGenerationFromHistory_getGenerationHistory ==
    \E i \in 1..Len(calls), throws \in Outcomes :
        /\ AfterGet(i, "deleteGenerationFromHistory", throws,
                    filterId(getHistory(GENERATION_HISTORY_KEY, throws),
                             calls[i].args[1]))
        /\ UNCHANGED now

deleteGenerationFromHistory_setItem ==
    \E i \in 1..Len(calls), throws \in Outcomes :
        AfterSet(i, "deleteGenerationFromHistory", GENERATION_HISTORY_KEY,
                 throws)

clearGenerationHistory ==
    Called("clearGenerationHistory", <<>>, "removeItem")

clearGenerationHistory_removeItem ==
    \E i \in 1..Len(calls), throws \in Outcomes :
        AfterRemove(i, "clearGenerationHistory", GENERATION_HISTORY_KEY, throws)

\* no history function has been called
StoreIdle ==
    /\ storage = [key \in {SCAN_HISTORY_KEY, GENERATION_HISTORY_KEY} |-> <<>>]
    /\ calls = <<>>
    /\ now = 1
    /\ opLog = <<>>
    /\ overlapped = FALSE
    /\ failures = 0

----------------------------------------------------------------------------
(* ScannerScreen: the camera callback, its handlers and the renders.  The
   sound, the copy to the clipboard, the opening of a URL, the first-scan
   hint and the review prompt change nothing of the state below and are
   left out, and with them what a handler does after its call of
   saveScanToHistory. *)

\* the barcodes in front of the camera or in the picked image
ScanData == {<<"a">>, <<"b">>}

\* a save made whatever the saveHistory setting is
shouldSave_Always == TRUE

\* if (saveHistory)
shouldSave == settings.saveHistory

\* a seen-set that is not looked at
seen_Never(data) == FALSE

\* scannedDataSetRef.current.has(data)
seen(data) == data \in scannedDataSet

\* if (showMultiResults && scannedItems.length > 0): the results of the
\* multi-scan mode are rendered
ResultsShown == showMultiResults /\ scannedItems # <<>>

\* if (scanned && scannedData): the result of a scan is rendered
ResultShown == ~ResultsShown /\ scanned /\ scannedData # <<>>

\* otherwise the camera is rendered
CameraShown == ~ResultsShown /\ ~ResultShown

\* One state update applied to the state of a render.  The updater of
\* handleRemoveItem takes the data of the item it removes out of the
\* seen-set.
Update(st, u) ==
    CASE u[1] = "setScanned" -> [st EXCEPT !.scanned = u[2]]
      [] u[1] = "setScannedData" -> [st EXCEPT !.scannedData = u[2]]
      [] u[1] = "setScannedType" -> [st EXCEPT !.scannedType = u[2]]
      [] u[1] = "setScannedItems" -> [st EXCEPT !.scannedItems = u[2]]
      [] u[1] = "setShowMultiResults" -> [st EXCEPT !.showMultiResults = u[2]]
      [] u[1] = "setSelectedItem" -> [st EXCEPT !.selectedItem = u[2]]
      [] u[1] = "appendItem"
           -> [st EXCEPT !.scannedItems = Append(@, u[2])]
      [] u[1] = "removeItem"
           -> LET item == SelectSeq(st.scannedItems,
                                    LAMBDA i : i.id = u[2])
              IN  [st EXCEPT
                     !.set = IF item # <<>> THEN @ \ {item[1].data} ELSE @,
                     !.scannedItems = SelectSeq(@, LAMBDA i : i.id # u[2])]

RECURSIVE Apply(_, _)
Apply(st, updates) ==
    IF updates = <<>> THEN st
    ELSE Apply(Update(st, Head(updates)), Tail(updates))

\* The next render: the updates queued and those of the handler that
\* runs, applied in the order of the calls.  A press is flushed when its
\* handler returns.
Flush(updates, set) ==
    LET st == Apply([scanned |-> scanned, scannedData |-> scannedData,
                     scannedType |-> scannedType,
                     scannedItems |-> scannedItems,
                     showMultiResults |-> showMultiResults,
                     selectedItem |-> selectedItem, set |-> set],
                    pending \o updates)
    IN  /\ scanned' = st.scanned
        /\ scannedData' = st.scannedData
        /\ scannedType' = st.scannedType
        /\ scannedItems' = st.scannedItems
        /\ showMultiResults' = st.showMultiResults
        /\ selectedItem' = st.selectedItem
        /\ scannedDataSet' = st.set
        /\ pending' = <<>>

\* Updates made outside a press, by a camera callback or after an await:
\* they wait for the next render.
Queue(updates, set) ==
    /\ pending' = pending \o updates
    /\ scannedDataSet' = set
    /\ UNCHANGED viewVars

\* the camera reports a barcode: the n-th of the run
Scan ==
    /\ scans < MaxScans
    /\ scans' = scans + 1

\* saveScanToHistory(data, type) is called
SaveScan(data, type) ==
    Invoke("saveScanToHistory", <<data, type>>, "getItem")

\* the handlers without the handler h
Ended(h) == SelectSeq(handlers, LAMBDA g : g.id # h.id)

\* The code shared by the single-scan branch of handleBarCodeScanned and by
\* pickFromGallery from setScanned(true) on, run by the handler h to its
\* call of saveScanToHistory.
Reveal(h) ==
    /\ Queue(<<(<<"setScanned", TRUE>>), (<<"setScannedData", h.data>>),
               (<<"setScannedType", h.type>>)>>,
             scannedDataSet)
    /\ IF shouldSave THEN SaveScan(h.data, h.type) ELSE UNCHANGED storeVars
    /\ handlers' = Ended(h)

\* a handler that stands at an await
Awaiting(fn, pc) ==
    {h \in {handlers[i] : i \in DOMAIN handlers} : h.fn = fn /\ h.pc = pc}

\* onBarcodeScanned={handleBarCodeScanned}: the camera reports a barcode
handleBarCodeScanned ==
    \E data \in ScanData :
        LET type == "qr"
            h == [fn |-> "handleBarCodeScanned", id |-> scans + 1,
                  data |-> data, type |-> type, pc |-> "haptic"]
        IN
        /\ CameraShown
        /\ Scan
        /\ IF settings.multiScan
           THEN IF seen(data)
                THEN UNCHANGED <<viewVars, scannedDataSet, pending, handlers,
                                 accepted, storeVars>>
                ELSE /\ Queue(<<(<<"appendItem",
                                   [id |-> scans + 1, data |-> data,
                                    type |-> type]>>)>>,
                              scannedDataSet \cup {data})
                     /\ IF shouldSave THEN SaveScan(data, type)
                        ELSE UNCHANGED storeVars
                     /\ UNCHANGED <<handlers, accepted>>
           ELSE IF scanned
                THEN UNCHANGED <<viewVars, scannedDataSet, pending, handlers,
                                 accepted, storeVars>>
                ELSE /\ accepted' = Append(accepted, data)
                     /\ IF settings.hapticEnabled
                        THEN /\ handlers' = Append(handlers, h)
                             /\ UNCHANGED <<viewVars, scannedDataSet, pending,
                                            storeVars>>
                        ELSE Reveal(h)
        /\ UNCHANGED settings
        /\ UNCHANGED <<screenVars, callVars, qrVars, authVars>>

\* after await Haptics.notificationAsync(...)
handleBarCodeScanned_notificationAsync ==
    \E h \in Awaiting("handleBarCodeScanned", "haptic") :
        /\ Reveal(h)
        /\ UNCHANGED <<settings, scans, accepted>>
        /\ UNCHANGED <<screenVars, callVars, qrVars, authVars>>

\* The gallery button is pressed; the handler awaits the feedback, the
\* image picker and the scan of the image.  One image is picked at a time.
pickFromGallery ==
    /\ CameraShown
    /\ \A h \in DOMAIN handlers : handlers[h].fn # "pickFromGallery"
    /\ handlers' = Append(handlers,
                          [fn |-> "pickFromGallery", id |-> -1,
                           data |-> <<>>, type |-> "", pc |-> "scan"])
    /\ Flush(<<>>, scannedDataSet)
    /\ UNCHANGED <<settings, scans, accepted, storeVars>>
    /\ UNCHANGED <<screenVars, callVars, qrVars, authVars>>

\* after await BarcodeScanning.scan(imageUri): the first barcode of the
\* image, or no barcode (or the picker was cancelled)
pickFromGallery_scan ==
    \E h \in Awaiting("pickFromGallery", "scan") :
      \E barcodes \in {<<>>, <<(<<"b">>)>>} :
        LET found == [h EXCEPT !.data = barcodes[1], !.type = "qr",
                               !.pc = "haptic"]
        IN
        /\ IF barcodes = <<>>
           THEN /\ handlers' = Ended(h)
                /\ UNCHANGED <<viewVars, scannedDataSet, pending, storeVars>>
           ELSE IF settings.hapticEnabled
                THEN /\ handlers' = Append(Ended(h), found)
                     /\ UNCHANGED <<viewVars, scannedDataSet, pending,
                                    storeVars>>
                ELSE Reveal([h EXCEPT !.data = barcodes[1], !.type = "qr"])
        /\ UNCHANGED <<settings, scans, accepted>>
        /\ UNCHANGED <<screenVars, callVars, qrVars, authVars>>

\* after await Haptics.notificationAsync(...)
pickFromGallery_notificationAsync ==
    \E h \in Awaiting("pickFromGallery", "haptic") :
        /\ Reveal(h)
        /\ UNCHANGED <<settings, scans, accepted>>
        /\ UNCHANGED <<screenVars, callVars, qrVars, authVars>>

\* setScanned(false) ... setSelectedItem(null)
resetUpdates ==
    <<(<<"setScanned", FALSE>>), (<<"setScannedData", <<>>>>),
      (<<"setScannedType", "">>), (<<"setScannedItems", <<>>>>),
      (<<"setShowMultiResults", FALSE>>), (<<"setSelectedItem", <<>>>>)>>

\* Scan Again is pressed on the result or on the results: with the
\* feedback on the handler awaits it first, with it off the press resets
\* the scanner.  One reset awaits its feedback at a time.
resetScanner ==
    /\ ~CameraShown
    /\ Awaiting("resetScanner", "haptic") = {}
    /\ IF settings.hapticEnabled
       THEN /\ handlers' = Append(handlers,
                                  [fn |-> "resetScanner", id |-> 0,
                                   data |-> <<>>, type |-> "",
                                   pc |-> "haptic"])
            /\ Flush(<<>>, scannedDataSet)
            /\ UNCHANGED accepted
       ELSE /\ Flush(resetUpdates, {})
            /\ accepted' = <<>>
            /\ UNCHANGED handlers
    /\ UNCHANGED <<settings, scans, storeVars>>
    /\ UNCHANGED <<screenVars, callVars, qrVars, authVars>>

\* after await Haptics.impactAsync(...): the setters, then
\* scannedDataSetRef.current.clear()
resetScanner_impactAsync ==
    \E h \in Awaiting("resetScanner", "haptic") :
        /\ Queue(resetUpdates, {})
        /\ handlers' = Ended(h)
        /\ accepted' = <<>>
        /\ UNCHANGED <<settings, scans, storeVars>>
        /\ UNCHANGED <<screenVars, callVars, qrVars, authVars>>

\* Done is pressed on the camera of the multi-scan mode
handleFinishMultiScan ==
    /\ CameraShown
    /\ settings.multiScan
    /\ Flush(IF scannedItems # <<>>
             THEN <<(<<"setShowMultiResults", TRUE>>)>> ELSE <<>>,
             scannedDataSet)
    /\ UNCHANGED <<settings, handlers, scans, accepted, storeVars>>
    /\ UNCHANGED <<screenVars, callVars, qrVars, authVars>>

\* the remove button of an item of the results is pressed
handleRemoveItem ==
    \E i \in DOMAIN scannedItems :
        /\ ResultsShown
        /\ Flush(<<(<<"removeItem", scannedItems[i].id>>)>>, scannedDataSet)
        /\ UNCHANGED <<settings, handlers, scans, accepted, storeVars>>
        /\ UNCHANGED <<screenVars, callVars, qrVars, authVars>>

\* onPress={() => setSelectedItem(item)}: an item of the results is pressed
onPressItem ==
    \E i \in DOMAIN scannedItems :
        /\ ResultsShown
        /\ selectedItem = <<>>
        /\ Flush(<<(<<"setSelectedItem", <<scannedItems[i]>>>>)>>,
                 scannedDataSet)
        /\ UNCHANGED <<settings, handlers, scans, accepted, storeVars>>
        /\ UNCHANGED <<screenVars, callVars, qrVars, authVars>>

\* onRequestClose={() => setSelectedItem(null)}
onRequestClose ==
    /\ ResultsShown
    /\ selectedItem # <<>>
    /\ Flush(<<(<<"setSelectedItem", <<>>>>)>>, scannedDataSet)
    /\ UNCHANGED <<settings, handlers, scans, accepted, storeVars>>
    /\ UNCHANGED <<screenVars, callVars, qrVars, authVars>>

\* the render of the updates made outside a press
render ==
    /\ pending # <<>>
    /\ Flush(<<>>, scannedDataSet)
    /\ UNCHANGED <<settings, handlers, scans, accepted, storeVars>>
    /\ UNCHANGED <<screenVars, callVars, qrVars, authVars>>

\* the state after the first render, with the settings st
ScannerInit(st) ==
    /\ settings = st
    /\ scanned = FALSE
    /\ scannedData = <<>>
    /\ scannedType = ""
    /\ scannedItems = <<>>
    /\ showMultiResults = FALSE
    /\ selectedItem = <<>>
    /\ scannedDataSet = {}
    /\ pending = <<>>
    /\ handlers = <<>>
    /\ scans = 0
    /\ accepted = <<>>

\* the defaults of the settings
DefaultSettings ==
    [hapticEnabled |-> TRUE, saveHistory |-> TRUE, multiScan |-> FALSE]

ScannerIdle == ScannerInit(DefaultSettings)

----------------------------------------------------------------------------
(* ScanHistoryScreen: the lock of the history *)

\* performAuth is called: setIsAuthenticating(true), then the await of
\* LocalAuthentication.authenticateAsync
performAuth ==
    /\ attempts < MaxAttempts
    /\ attempts' = attempts + 1
    /\ isAuthenticating' = TRUE
    /\ prompts' = Append(prompts, [id |-> attempts + 1, visit |-> visits',
                                   pc |-> "authenticateAsync"])

\* the tab gets the focus: the effect of useFocusEffect runs
onFocus ==
    /\ ~focused
    /\ visits < MaxVisits
    /\ focused' = TRUE
    /\ visits' = visits + 1
    /\ IF requireAuth
       THEN IF hasAttemptedAuthRef
            THEN UNCHANGED <<hasAttemptedAuthRef, attempts, isAuthenticating,
                             prompts>>
            ELSE /\ hasAttemptedAuthRef' = TRUE
                 /\ performAuth
       ELSE /\ prompts' = Append(prompts, [id |-> 0, visit |-> visits',
                                           pc |-> "loadHistory"])
            /\ UNCHANGED <<hasAttemptedAuthRef, attempts, isAuthenticating>>
    /\ UNCHANGED <<requireAuth, isAuthenticated, history, authVisit>>
    /\ UNCHANGED <<screenVars, callVars, qrVars, storeVars, scannerVars>>

\* the tab loses the focus: the cleanup of the effect runs
onBlur ==
    /\ focused
    /\ focused' = FALSE
    /\ IF requireAuth
       THEN /\ isAuthenticated' = FALSE
            /\ hasAttemptedAuthRef' = FALSE
       ELSE UNCHANGED <<isAuthenticated, hasAttemptedAuthRef>>
    /\ UNCHANGED <<requireAuth, isAuthenticating, history, prompts, visits,
                   attempts, authVisit>>
    /\ UNCHANGED <<screenVars, callVars, qrVars, storeVars, scannerVars>>

\* if (requireAuth && !isAuthenticated): the locked screen is rendered
Locked == requireAuth /\ ~isAuthenticated

\* the Unlock button of the locked screen is pressed
handleUnlock ==
    /\ focused
    /\ Locked
    /\ ~isAuthenticating
    /\ visits' = visits
    /\ performAuth
    /\ UNCHANGED <<requireAuth, focused, isAuthenticated, hasAttemptedAuthRef,
                   history, authVisit>>
    /\ UNCHANGED <<screenVars, callVars, qrVars, storeVars, scannerVars>>

\* the prompts without the one of the call p
Dismiss(p) == SelectSeq(prompts, LAMBDA q : q # p)

\* after await LocalAuthentication.authenticateAsync(...): the result, a
\* success or not
performAuth_authenticateAsync ==
    \E i \in DOMAIN prompts, success \in BOOLEAN :
        LET p == prompts[i] IN
        /\ p.pc = "authenticateAsync"
        /\ IF success
           THEN /\ isAuthenticated' = TRUE
                /\ authVisit' = p.visit
                /\ prompts' = [prompts EXCEPT ![i].pc = "getScanHistory"]
                /\ UNCHANGED isAuthenticating
           ELSE /\ isAuthenticating' = FALSE
                /\ prompts' = Dismiss(p)
                /\ UNCHANGED <<isAuthenticated, authVisit>>
        /\ UNCHANGED <<requireAuth, focused, hasAttemptedAuthRef, history,
                       visits, attempts>>
        /\ UNCHANGED <<screenVars, callVars, qrVars, storeVars, scannerVars>>

\* after await getScanHistory() of performAuth
performAuth_getScanHistory ==
    \E i \in DOMAIN prompts, throws \in BOOLEAN :
        LET p == prompts[i] IN
        /\ p.pc = "getScanHistory"
        /\ history' = getHistory(SCAN_HISTORY_KEY, throws)
        /\ isAuthenticating' = FALSE
        /\ prompts' = Dismiss(p)
        /\ UNCHANGED <<requireAuth, focused, isAuthenticated,
                       hasAttemptedAuthRef, visits, attempts, authVisit>>
        /\ UNCHANGED <<screenVars, callVars, qrVars, storeVars, scannerVars>>

\* after await getScanHistory() of loadHistory
loadHistory_getScanHistory ==
    \E i \in DOMAIN prompts, throws \in BOOLEAN :
        LET p == prompts[i] IN
        /\ p.pc = "loadHistory"
        /\ history' = getHistory(SCAN_HISTORY_KEY, throws)
        /\ prompts' = Dismiss(p)
        /\ UNCHANGED <<requireAuth, focused, isAuthenticated, isAuthenticating,
                       hasAttemptedAuthRef, visits, attempts, authVisit>>
        /\ UNCHANGED <<screenVars, callVars, qrVars, storeVars, scannerVars>>

\* the state after the first render, before the tab has the focus
AuthInit(required) ==
    /\ requireAuth = required
    /\ focused = FALSE
    /\ isAuthenticated = FALSE
    /\ isAuthenticating = FALSE
    /\ hasAttemptedAuthRef = FALSE
    /\ history = <<>>
    /\ prompts = <<>>
    /\ visits = 0
    /\ attempts = 0
    /\ authVisit = 0

AuthIdle == AuthInit(FALSE)

AppIdle ==
    /\ StoreIdle
    /\ ScannerIdle
    /\ AuthIdle

----------------------------------------------------------------------------
(* GeneratorScreen: the state after the first render *)

InitScreen ==
    /\ codeFormats = CODE_FORMATS
    /\ selectedFormat = CODE_FORMATS[1]
    /\ inputValue = <<>>
    /\ generatedValue = <<>>
    /\ barcodeError = FALSE
    /\ showPicker = FALSE
    /\ tempSelectedId = CODE_FORMATS[1].id
    /\ alert = <<>>
    /\ saveCalls = <<>>

----------------------------------------------------------------------------
(* GeneratorScreen: the handlers *)

\* the selector's onPress
openPicker ==
    /\ ~showPicker
    /\ tempSelectedId' = selectedFormat.id
    /\ showPicker' = TRUE
    /\ alert' = <<>>
    /\ saveCalls' = <<>>
    /\ UNCHANGED <<selectedFormat, inputValue, generatedValue, barcodeError>>
    /\ UNCHANGED codeFormats
    /\ UNCHANGED <<callVars, qrVars, appVars>>

\* a value that is the id of no format
UnknownId == "unknown"

\* The Picker's onValueChange: (value) => setTempSelectedId(value).  The
\* Picker is a component outside this code: the value it hands over is the
\* value of one of the Picker.Item, or one that no item has.
onValueChange ==
    /\ showPicker
    /\ \E value \in {codeFormats[i].id : i \in 1..Len(codeFormats)}
                        \cup {UnknownId} :
          tempSelectedId' = value
    /\ alert' = <<>>
    /\ saveCalls' = <<>>
    /\ UNCHANGED <<selectedFormat, inputValue, generatedValue, barcodeError,
                   showPicker>>
    /\ UNCHANGED codeFormats
    /\ UNCHANGED <<callVars, qrVars, appVars>>

\* handlePickerDone keeping the formats in order of their last use: the
\* format chosen moves to the front of the array
handlePickerDone_MoveToFront ==
    /\ showPicker
    /\ LET format == find(tempSelectedId)
       IN IF format # <<>> /\ format[1].id # selectedFormat.id
          THEN /\ selectedFormat' = format[1]
               /\ generatedValue' = <<>>
               /\ inputValue' = <<>>
               /\ barcodeError' = FALSE
               /\ codeFormats' =
                     <<format[1]>> \o SelectSeq(codeFormats,
                                               LAMBDA f : f.id # format[1].id)
          ELSE UNCHANGED <<selectedFormat, generatedValue, inputValue,
                           barcodeError, codeFormats>>
    /\ showPicker' = FALSE
    /\ alert' = <<>>
    /\ saveCalls' = <<>>
    /\ UNCHANGED tempSelectedId
    /\ UNCHANGED <<callVars, qrVars, appVars>>

\* handlePickerDone falling back to the first format when the id is the id
\* of none
handlePickerDone_DefaultFirst ==
    /\ showPicker
    /\ LET found == find(tempSelectedId)
           format == IF found # <<>> THEN found ELSE <<codeFormats[1]>>
       IN IF format[1].id # selectedFormat.id \/ found = <<>>
          THEN /\ selectedFormat' = format[1]
               /\ generatedValue' = <<>>
               /\ inputValue' = <<>>
               /\ barcodeError' = FALSE
          ELSE UNCHANGED <<selectedFormat, generatedValue, inputValue,
                           barcodeError>>
    /\ showPicker' = FALSE
    /\ alert' = <<>>
    /\ saveCalls' = <<>>
    /\ UNCHANGED tempSelectedId
    /\ UNCHANGED codeFormats
    /\ UNCHANGED <<callVars, qrVars, appVars>>

\* handlePickerDone switching the format and keeping the texts
handlePickerDone_KeepTexts ==
    /\ showPicker
    /\ LET format == find(tempSelectedId)
       IN IF format # <<>> /\ format[1].id # selectedFormat.id
          THEN /\ selectedFormat' = format[1]
               /\ barcodeError' = FALSE
               /\ UNCHANGED <<generatedValue, inputValue>>
          ELSE UNCHANGED <<selectedFormat, generatedValue, inputValue,
                           barcodeError>>
    /\ showPicker' = FALSE
    /\ alert' = <<>>
    /\ saveCalls' = <<>>
    /\ UNCHANGED tempSelectedId
    /\ UNCHANGED codeFormats
    /\ UNCHANGED <<callVars, qrVars, appVars>>

handlePickerDone ==
    /\ showPicker
    /\ LET format == find(tempSelectedId)
       IN IF format # <<>> /\ format[1].id # selectedFormat.id
          THEN /\ selectedFormat' = format[1]
               /\ generatedValue' = <<>>
               /\ inputValue' = <<>>
               /\ barcodeError' = FALSE
          ELSE UNCHANGED <<selectedFormat, generatedValue, inputValue,
                           barcodeError>>
    /\ showPicker' = FALSE
    /\ alert' = <<>>
    /\ saveCalls' = <<>>
    /\ UNCHANGED tempSelectedId
    /\ UNCHANGED codeFormats
    /\ UNCHANGED <<callVars, qrVars, appVars>>

handlePickerCancel ==
    /\ showPicker
    /\ tempSelectedId' = selectedFormat.id
    /\ showPicker' = FALSE
    /\ alert' = <<>>
    /\ saveCalls' = <<>>
    /\ UNCHANGED <<selectedFormat, inputValue, generatedValue, barcodeError>>
    /\ UNCHANGED codeFormats
    /\ UNCHANGED <<callVars, qrVars, appVars>>

\* the text field's onChangeText={setInputValue}
onChangeText ==
    /\ \E text \in ScreenInputs(selectedFormat.id) : inputValue' = text
    /\ alert' = <<>>
    /\ saveCalls' = <<>>
    /\ UNCHANGED <<selectedFormat, generatedValue, barcodeError, showPicker,
                   tempSelectedId>>
    /\ UNCHANGED codeFormats
    /\ UNCHANGED <<callVars, qrVars, appVars>>

\* selectedFormat.format || selectedFormat.id
formatOrId(format) ==
    IF format.format # Undefined THEN format.format ELSE format.id

\* handleGenerate without setBarcodeError(false)
handleGenerate_KeepError ==
    /\ IF trim(inputValue) = <<>>
       THEN /\ alert' = <<"Error", "Please enter a value to generate">>
            /\ saveCalls' = <<>>
            /\ UNCHANGED <<barcodeError, generatedValue>>
       ELSE IF selectedFormat.hasValidation
               /\ ~validation(selectedFormat, inputValue)
       THEN /\ alert' = <<"Invalid Input", selectedFormat.validationMessage>>
            /\ saveCalls' = <<>>
            /\ UNCHANGED <<barcodeError, generatedValue>>
       ELSE /\ generatedValue' = inputValue
            /\ saveCalls' = <<[data |-> inputValue,
                               format |-> formatOrId(selectedFormat),
                               formatName |-> selectedFormat.name]>>
            /\ alert' = <<>>
            /\ UNCHANGED barcodeError
    /\ UNCHANGED <<selectedFormat, inputValue, showPicker, tempSelectedId>>
    /\ UNCHANGED codeFormats
    /\ UNCHANGED <<callVars, qrVars, appVars>>

\* handleGenerate resetting barcodeError before it validates
handleGenerate_ResetFirst ==
    /\ IF trim(inputValue) = <<>>
       THEN /\ alert' = <<"Error", "Please enter a value to generate">>
            /\ saveCalls' = <<>>
            /\ UNCHANGED <<barcodeError, generatedValue>>
       ELSE IF selectedFormat.hasValidation
               /\ ~validation(selectedFormat, inputValue)
       THEN /\ alert' = <<"Invalid Input", selectedFormat.validationMessage>>
            /\ saveCalls' = <<>>
            /\ barcodeError' = FALSE
            /\ UNCHANGED generatedValue
       ELSE /\ barcodeError' = FALSE
            /\ generatedValue' = inputValue
            /\ saveCalls' = <<[data |-> inputValue,
                               format |-> formatOrId(selectedFormat),
                               formatName |-> selectedFormat.name]>>
            /\ alert' = <<>>
    /\ UNCHANGED <<selectedFormat, inputValue, showPicker, tempSelectedId>>
    /\ UNCHANGED codeFormats
    /\ UNCHANGED <<callVars, qrVars, appVars>>

handleGenerate ==
    /\ IF trim(inputValue) = <<>>
       THEN /\ alert' = <<"Error", "Please enter a value to generate">>
            /\ saveCalls' = <<>>
            /\ UNCHANGED <<barcodeError, generatedValue>>
       ELSE IF selectedFormat.hasValidation
               /\ ~validation(selectedFormat, inputValue)
       THEN /\ alert' = <<"Invalid Input", selectedFormat.validationMessage>>
            /\ saveCalls' = <<>>
            /\ UNCHANGED <<barcodeError, generatedValue>>
       ELSE /\ barcodeError' = FALSE
            /\ generatedValue' = inputValue
            /\ saveCalls' = <<[data |-> inputValue,
                               format |-> formatOrId(selectedFormat),
                               formatName |-> selectedFormat.name]>>
            /\ alert' = <<>>
    /\ UNCHANGED <<selectedFormat, inputValue, showPicker, tempSelectedId>>
    /\ UNCHANGED codeFormats
    /\ UNCHANGED <<callVars, qrVars, appVars>>

\* handleCopy, pressed on the Copy button, which is shown while there is a
\* generated value: the image of the code is captured and copied, or, when
\* that throws, the generated value is copied as text
handleCopy ==
    /\ generatedValue # <<>>
    /\ \/ alert' = <<"Copied", "Image copied to clipboard">>
       \/ alert' = <<"Copied", "Text copied to clipboard">>
    /\ saveCalls' = <<>>
    /\ UNCHANGED <<selectedFormat, inputValue, generatedValue, barcodeError,
                   showPicker, tempSelectedId>>
    /\ UNCHANGED codeFormats
    /\ UNCHANGED <<callVars, qrVars, appVars>>

\* handleShare, pressed on the Share button: the image is captured and
\* shared, or sharing is not available, or one of the two throws
handleShare ==
    /\ generatedValue # <<>>
    /\ \/ alert' = <<>>
       \/ alert' = <<"Error", "Sharing is not available on this device">>
       \/ alert' = <<"Error", "Failed to share the code">>
    /\ saveCalls' = <<>>
    /\ UNCHANGED <<selectedFormat, inputValue, generatedValue, barcodeError,
                   showPicker, tempSelectedId>>
    /\ UNCHANGED codeFormats
    /\ UNCHANGED <<callVars, qrVars, appVars>>

\* BarcodeErrorBoundary: the Barcode component throws while it renders the
\* generated value, and componentDidCatch calls onError
onError ==
    /\ generatedValue # <<>>
    /\ ~barcodeError
    /\ selectedFormat.type # "qr"
    /\ barcodeError' = TRUE
    /\ UNCHANGED <<selectedFormat, inputValue, generatedValue, showPicker,
                   tempSelectedId, alert, saveCalls>>
    /\ UNCHANGED codeFormats
    /\ UNCHANGED <<callVars, qrVars, appVars>>

\* what the screen renders in the container of the generated code
codeContainer ==
    IF generatedValue = <<>> THEN "none"
    ELSE IF barcodeError THEN "errorContainer"
    ELSE IF selectedFormat.type = "qr" THEN "QRCode"
    ELSE "BarcodeErrorBoundary"

Init ==
    /\ InitScreen
    /\ CallsIdle
    /\ QRIdle
    /\ AppIdle

Next ==
    \/ openPicker
    \/ onValueChange
    \/ handlePickerDone
    \/ handlePickerCancel
    \/ onChangeText
    \/ handleGenerate
    \/ handleCopy
    \/ handleShare
    \/ onError

Spec == Init /\ [][Next]_vars

----------------------------------------------------------------------------
(* The helper functions applied to drawn inputs *)

InitFn ==
    /\ InitScreen
    /\ callIn \in CallInputs \cup TextInputs
    /\ callArg = callIn
    /\ callLog = <<>>
    /\ callRet = <<"none">>
    /\ QRIdle
    /\ AppIdle

Call_calculateEAN13Checksum ==
    /\ callLog = <<>>
    /\ callRet' = <<"number", calculateEAN13Checksum(callArg)>>
    /\ callLog' = <<"calculateEAN13Checksum">>
    /\ UNCHANGED <<callIn, callArg>>
    /\ UNCHANGED <<screenVars, qrVars, appVars>>

\* d + checkDigit: the number returned is appended to the argument
Call_append ==
    /\ callLog = <<"calculateEAN13Checksum">>
    /\ callArg' = callArg \o ToStr(callRet[2])
    /\ callLog' = Append(callLog, "append")
    /\ UNCHANGED <<callIn, callRet>>
    /\ UNCHANGED <<screenVars, qrVars, appVars>>

Call_isValidEAN13 ==
    /\ callLog \in {<<>>, <<"calculateEAN13Checksum", "append">>}
    /\ callRet' = <<"boolean", isValidEAN13(callArg)>>
    /\ callLog' = Append(callLog, "isValidEAN13")
    /\ UNCHANGED <<callIn, callArg>>
    /\ UNCHANGED <<screenVars, qrVars, appVars>>

Call_isValidEAN8 ==
    /\ callLog = <<>>
    /\ callRet' = <<"boolean", isValidEAN8(callArg)>>
    /\ callLog' = <<"isValidEAN8">>
    /\ UNCHANGED <<callIn, callArg>>
    /\ UNCHANGED <<screenVars, qrVars, appVars>>

Call_isValidUPCA ==
    /\ callLog = <<>>
    /\ callRet' = <<"boolean", isValidUPCA(callArg)>>
    /\ callLog' = <<"isValidUPCA">>
    /\ UNCHANGED <<callIn, callArg>>
    /\ UNCHANGED <<screenVars, qrVars, appVars>>

Call_isValidITF14 ==
    /\ callLog = <<>>
    /\ callRet' = <<"boolean", isValidITF14(callArg)>>
    /\ callLog' = <<"isValidITF14">>
    /\ UNCHANGED <<callIn, callArg>>
    /\ UNCHANGED <<screenVars, qrVars, appVars>>

\* format.validation(v) of an entry of CODE_FORMATS
Call_validation ==
    /\ callLog = <<>>
    /\ \E i \in 1..Len(CODE_FORMATS) :
          /\ CODE_FORMATS[i].hasValidation
          /\ callRet' = <<"boolean", validation(CODE_FORMATS[i], callArg)>>
          /\ callLog' = <<"validation", CODE_FORMATS[i].id>>
    /\ UNCHANGED <<callIn, callArg>>
    /\ UNCHANGED <<screenVars, qrVars, appVars>>

NextFn ==
    \/ Call_calculateEAN13Checksum
    \/ Call_append
    \/ Call_isValidEAN13
    \/ Call_isValidEAN8
    \/ Call_isValidUPCA
    \/ Call_isValidITF14
    \/ Call_validation

SpecFn == InitFn /\ [][NextFn]_vars

----------------------------------------------------------------------------
(* The QRCode component rendered with drawn values *)

InitQR ==
    /\ InitScreen
    /\ CallsIdle
    /\ qrEncoder \in {f \in [QRValues -> EncoderResults] :
                         f[QRLongText] = Throws}
    /\ qrMemo = <<>>
    /\ qrRenders = 0
    /\ qrCalls = <<>>
    /\ qrView = <<"none">>
    /\ AppIdle

NextQR ==
    \/ QRCode
    \/ QRCode_unmount

SpecQR == InitQR /\ [][NextQR]_vars

----------------------------------------------------------------------------
(* The render sizing applied to drawn sizes and module counts *)

InitSizing ==
    /\ InitScreen
    /\ QRIdle
    /\ AppIdle
    /\ callIn \in {<<size, moduleCount>> :
                      size \in 1..MaxPixels, moduleCount \in 1..MaxModuleCount}
    /\ callArg = callIn
    /\ callLog = <<>>
    /\ callRet = <<"none">>

\* const cellSize = ...; const actualSize = ...
Call_QRCodeSize ==
    /\ callLog = <<>>
    /\ callRet' = <<"size", cellSize(callArg[1], callArg[2]),
                    actualSize(callArg[1], callArg[2])>>
    /\ callLog' = <<"QRCode">>
    /\ UNCHANGED <<callIn, callArg>>
    /\ UNCHANGED <<screenVars, qrVars, appVars>>

NextSizing == Call_QRCodeSize

SpecSizing == InitSizing /\ [][NextSizing]_vars

----------------------------------------------------------------------------
(* The history functions called on stored histories *)

InitStore ==
    /\ InitScreen
    /\ CallsIdle
    /\ QRIdle
    /\ \E k \in StoredSizes :
          /\ storage = [key \in {SCAN_HISTORY_KEY, GENERATION_HISTORY_KEY} |->
                           IF key = SCAN_HISTORY_KEY THEN StoredScans(k)
                           ELSE StoredGenerations(k)]
          /\ now = k + 1
    /\ calls = <<>>
    /\ opLog = <<>>
    /\ overlapped = FALSE
    /\ failures = 0
    /\ ScannerIdle
    /\ AuthIdle

NextStore ==
    \/ saveScanToHistory
    \/ saveScanToHistory_getScanHistory
    \/ saveScanToHistory_setItem
    \/ deleteScanFromHistory
    \/ deleteScanFromHistory_getScanHistory
    \/ deleteScanFromHistory_setItem
    \/ clearScanHistory
    \/ clearScanHistory_removeItem
    \/ saveGenerationToHistory
    \/ saveGenerationToHistory_getGenerationHistory
    \/ saveGenerationToHistory_setItem
    \/ deleteGenerationFromHistory
    \/ deleteGenerationFromHistory_getGenerationHistory
    \/ deleteGenerationFromHistory_setItem
    \/ clearGenerationHistory
    \/ clearGenerationHistory_removeItem

SpecStore == InitStore /\ [][NextStore]_vars

----------------------------------------------------------------------------
(* ScannerScreen with every combination of its settings *)

Settings ==
    [hapticEnabled : BOOLEAN, saveHistory : BOOLEAN, multiScan : BOOLEAN]

InitScanner ==
    /\ InitScreen
    /\ CallsIdle
    /\ QRIdle
    /\ StoreIdle
    /\ \E st \in Settings : ScannerInit(st)
    /\ AuthIdle

NextScanner ==
    \/ handleBarCodeScanned
    \/ handleBarCodeScanned_notificationAsync
    \/ pickFromGallery
    \/ pickFromGallery_scan
    \/ pickFromGallery_notificationAsync
    \/ resetScanner
    \/ resetScanner_impactAsync
    \/ handleFinishMultiScan
    \/ handleRemoveItem
    \/ onPressItem
    \/ onRequestClose
    \/ render

SpecScanner == InitScanner /\ [][NextScanner]_vars

----------------------------------------------------------------------------
(* ScanHistoryScreen visited with the lock on and off *)

InitAuth ==
    /\ InitScreen
    /\ CallsIdle
    /\ QRIdle
    /\ ScannerIdle
    /\ \E k \in {0, 2} :
          /\ storage = [key \in {SCAN_HISTORY_KEY, GENERATION_HISTORY_KEY} |->
                           IF key = SCAN_HISTORY_KEY THEN StoredScans(k)
                           ELSE <<>>]
          /\ now = k + 1
    /\ calls = <<>>
    /\ opLog = <<>>
    /\ overlapped = FALSE
    /\ failures = 0
    /\ \E required \in BOOLEAN : AuthInit(required)

NextAuth ==
    \/ onFocus
    \/ onBlur
    \/ handleUnlock
    \/ performAuth_authenticateAsync
    \/ performAuth_getScanHistory
    \/ loadHistory_getScanHistory

SpecAuth == InitAuth /\ [][NextAuth]_vars

----------------------------------------------------------------------------
(* What the claims state, in their own terms *)

AllDigits(v) == \A i \in 1..Len(v) : IsDigit(v[i])
IsBlank(v) == \A i \in 1..Len(v) : v[i] = " "

\* the sum of the first n digits of v, the digit at 0-based index i taken
\* wEven times for even i and wOdd times for odd i
RECURSIVE ClaimSum(_, _, _, _)
ClaimSum(v, n, wEven, wOdd) ==
    IF n = 0 THEN 0
    ELSE ClaimSum(v, n - 1, wEven, wOdd)
         + DigitVal(v[n]) * (IF (n - 1) % 2 = 0 THEN wEven ELSE wOdd)

\* v is full digits long and ends in (10 - (sum mod 10)) mod 10
ClaimAccepts(v, full, wEven, wOdd) ==
    /\ Len(v) = full
    /\ AllDigits(v)
    /\ DigitVal(v[full]) = (10 - (ClaimSum(v, full - 1, wEven, wOdd) % 10)) % 10

ChecksumIds == {"ean13", "ean8", "upca", "itf14"}
ClaimFullLength(id) ==
    CASE id = "ean13" -> 13 [] id = "ean8" -> 8 [] id = "upca" -> 12
      [] id = "itf14" -> 14

MaxLengthIds == {"ean13", "ean8", "upca", "upce", "itf14"}
ClaimMaxLength(id) ==
    CASE id = "ean13" -> 13 [] id = "ean8" -> 8 [] id = "upca" -> 12
      [] id = "upce" -> 8 [] id = "itf14" -> 14

EmptyInputAlert == <<"Error", "Please enter a value to generate">>
\* Invalid, with the message of the registry's entry for the format
InvalidAlert(id) == <<"Invalid Input", find(id)[1].validationMessage>>
\* an error that is neither EmptyInput nor Invalid
IsTooLongAlert(a) == a # <<>> /\ a # EmptyInputAlert /\ a[1] # "Invalid Input"

CodabarLetters == {"A", "B", "C", "D", "a", "b", "c", "d"}
CodabarBody == {"0", "1", "2", "3", "4", "5", "6", "7", "8", "9",
                "-", "$", ":", "/", ".", "+"}

\* the text folded to upper case
LowerSeq == <<"a", "b", "c", "d", "e", "f", "g", "h", "i", "j", "k", "l", "m",
              "n", "o", "p", "q", "r", "s", "t", "u", "v", "w", "x", "y", "z">>
UpperSeq == <<"A", "B", "C", "D", "E", "F", "G", "H", "I", "J", "K", "L", "M",
              "N", "O", "P", "Q", "R", "S", "T", "U", "V", "W", "X", "Y", "Z">>
ClaimUpperCase(v) ==
    [i \in 1..Len(v) |->
        IF \E k \in 1..26 : LowerSeq[k] = v[i]
        THEN UpperSeq[CHOOSE k \in 1..26 : LowerSeq[k] = v[i]]
        ELSE v[i]]
CaseFoldedIds == {"code39", "codabar"}

\* the ids in the order of the declaration
DeclaredIds == <<"qr", "code128", "ean13", "ean8", "upca", "upce", "code39",
                 "itf14", "itf", "msi", "pharmacode", "codabar">>

RoundTripLog == <<"calculateEAN13Checksum", "append", "isValidEAN13">>
LastCall == IF callLog = <<>> THEN "none" ELSE callLog[Len(callLog)]
Returned(b) == callRet = <<"boolean", b>>

----------------------------------------------------------------------------
(* The claims *)

\* C1: EAN-13 round trip.  For every 12-digit string d, d followed by the
\* digit calculateEAN13Checksum(d) returns is a 13-digit string that
\* isValidEAN13 accepts.
C1_EAN13RoundTrip ==
    (callLog = RoundTripLog /\ Len(callIn) = 12 /\ AllDigits(callIn))
        => /\ Len(callArg) = 13
           /\ AllDigits(callArg)
           /\ SubSeq(callArg, 1, 12) = callIn
           /\ Returned(TRUE)

C1_Witness ==
    /\ callLog = RoundTripLog
    /\ callIn = P(12)
    /\ callArg = P(13)
    /\ Returned(TRUE)

\* C2: isValidEAN13(v) is true exactly when v is 13 digits and its last
\* digit is (10 - (sum mod 10)) mod 10, the sum taking the first 12 digits
\* once at even 0-based index and three times at odd index; so a 13-digit
\* string with another last digit is rejected.
C2_IsValidEAN13 ==
    LastCall = "isValidEAN13" => Returned(ClaimAccepts(callArg, 13, 1, 3))

C2_Witness ==
    /\ callLog = <<"isValidEAN13">>
    /\ Len(callArg) = 13
    /\ AllDigits(callArg)
    /\ SubSeq(callArg, 1, 12) = P(12)
    /\ callArg[13] # "1"
    /\ Returned(FALSE)

\* C3: isValidEAN8 and isValidUPCA accept exactly the strings of 8 and of
\* 12 digits whose last digit is (10 - (sum mod 10)) mod 10, the sum taking
\* the leading 7 and 11 digits three times at even 0-based index and once
\* at odd index.
C3_IsValidEAN8UPCA ==
    /\ LastCall = "isValidEAN8" => Returned(ClaimAccepts(callArg, 8, 3, 1))
    /\ LastCall = "isValidUPCA" => Returned(ClaimAccepts(callArg, 12, 3, 1))

C3_Witness ==
    /\ callLog = <<"isValidEAN8">>
    /\ callArg = P(7) \o <<"2">>
    /\ Returned(TRUE)

\* C4 as stated: isValidITF14 accepts exactly the strings of 14 digits
\* whose last digit is the check digit of the first 13 taken once at even
\* 0-based index and three times at odd index, the weighting of EAN-13.
C4_ITF14WeightsOfEAN13 ==
    LastCall = "isValidITF14" => Returned(ClaimAccepts(callArg, 14, 1, 3))

\* C4, amended: isValidITF14 accepts exactly the strings of 14 digits whose
\* last digit is the check digit of the first 13 taken three times at even
\* 0-based index and once at odd index, the weighting of EAN-8 and UPC-A.
C4_ITF14Weights ==
    LastCall = "isValidITF14" => Returned(ClaimAccepts(callArg, 14, 3, 1))

C4_Witness ==
    /\ callLog = <<"isValidITF14">>
    /\ callArg = P(13) \o <<"4">>
    /\ ~ClaimAccepts(callArg, 14, 1, 3)
    /\ Returned(TRUE)

\* C5: for ean13, ean8, upca and itf14 the validation accepts every
\* all-digit input one digit short of the full length, whatever its digits,
\* and rejects every input that holds a character that is no digit or whose
\* length is neither the short nor the full one.
C5_ShortFormAccepted ==
    (Len(callLog) = 2 /\ callLog[1] = "validation" /\ callLog[2] \in ChecksumIds)
        => LET full == ClaimFullLength(callLog[2])
           IN /\ (AllDigits(callArg) /\ Len(callArg) = full - 1)
                    => Returned(TRUE)
              /\ (~AllDigits(callArg) \/ Len(callArg) \notin {full - 1, full})
                    => Returned(FALSE)

C5_Witness ==
    /\ callLog = <<"validation", "upca">>
    /\ Len(callArg) = 11
    /\ AllDigits(callArg)
    /\ ~isValidUPCA(callArg \o <<"0">>)
    /\ Returned(TRUE)

\* C6: after a Generate that succeeded on a short-form input of ean13, ean8,
\* upca or itf14, the generated value and the data saved to the generation
\* history are the input followed by its check digit, the one digit that
\* makes the full-length form valid.
C6_ShortFormNormalized ==
    (/\ saveCalls # <<>>
     /\ selectedFormat.id \in ChecksumIds
     /\ Len(inputValue) = ClaimFullLength(selectedFormat.id) - 1)
        => \E i \in 1..10 :
              LET normalized == inputValue \o <<DigitChars[i]>>
              IN /\ validation(selectedFormat, normalized)
                 /\ generatedValue = normalized
                 /\ saveCalls[1].data = normalized

\* C7: whatever the format, Generate on an empty or blank input shows the
\* empty-input error, leaves generatedValue and barcodeError as they were
\* and saves nothing to the generation history.
C7_EmptyInputRejected ==
    [][(handleGenerate /\ IsBlank(inputValue))
          => /\ alert' = EmptyInputAlert
             /\ generatedValue' = generatedValue
             /\ barcodeError' = barcodeError
             /\ saveCalls' = <<>>]_vars

C7_Witness ==
    /\ selectedFormat.id = "qr"
    /\ inputValue = <<" ">>
    /\ alert = EmptyInputAlert
    /\ generatedValue # <<>>
    /\ saveCalls = <<>>

\* C8: when the selected format's validation rejects an input that is not
\* blank, Generate shows Invalid with that format's validationMessage,
\* leaves generatedValue and barcodeError as they were and saves nothing to
\* the generation history.
C8_InvalidInputRejected ==
    [][(/\ handleGenerate
        /\ ~IsBlank(inputValue)
        /\ selectedFormat.hasValidation
        /\ ~validation(selectedFormat, inputValue))
          => /\ alert' = InvalidAlert(selectedFormat.id)
             /\ generatedValue' = generatedValue
             /\ barcodeError' = barcodeError
             /\ saveCalls' = <<>>]_vars

C8_Witness ==
    /\ selectedFormat.id = "ean13"
    /\ alert = InvalidAlert("ean13")
    /\ inputValue = P(12) \o <<"0">>
    /\ generatedValue = P(12)
    /\ barcodeError
    /\ saveCalls = <<>>

C10_PharmacodeDigitsInRange ==
    callLog = <<"validation", "pharmacode">>
        => Returned(/\ Len(callArg) >= 1
                    /\ AllDigits(callArg)
                    /\ DigitsValue(callArg, 0) >= 3
                    /\ DigitsValue(callArg, 0) <= 131070)

\* C11 as stated: the Codabar validation accepts an input exactly when its
\* first and its last character are letters A-D in either case and every
\* character between them is one of 0-9 - $ : / . +; 1234 is rejected and
\* A1234B is accepted, the value left as it is.
C11_CodabarStartBodyEnd ==
    callLog = <<"validation", "codabar">>
        => /\ Returned(/\ Len(callArg) >= 1
                       /\ callArg[1] \in CodabarLetters
                       /\ callArg[Len(callArg)] \in CodabarLetters
                       /\ \A i \in 2..(Len(callArg) - 1) :
                             callArg[i] \in CodabarBody)
           /\ callArg = callIn

\* C11, amended: the Codabar validation accepts an input exactly when its
\* first and its last character are letters A-D in either case, there is at
\* least one character between them, and every character between them is
\* one of 0-9 - $ : / . +; 1234 is rejected and A1234B is accepted, the
\* value left as it is.
C11_CodabarNonEmptyBody ==
    callLog = <<"validation", "codabar">>
        => /\ Returned(/\ Len(callArg) >= 3
                       /\ callArg[1] \in CodabarLetters
                       /\ callArg[Len(callArg)] \in CodabarLetters
                       /\ \A i \in 2..(Len(callArg) - 1) :
                             callArg[i] \in CodabarBody)
           /\ callArg = callIn
           /\ callArg = <<"1", "2", "3", "4">> => Returned(FALSE)
           /\ callArg = <<"A", "1", "2", "3", "4", "B">> => Returned(TRUE)

C11_Witness ==
    /\ callLog = <<"validation", "codabar">>
    /\ callIn = <<"A", "d">>
    /\ callArg = callIn
    /\ Returned(FALSE)

\* C12: the ITF validation accepts an input exactly when it is a non-empty
\* string of digits with an even number of characters.
C12_ITFEvenDigits ==
    callLog = <<"validation", "itf">>
        => Returned(Len(callArg) >= 1 /\ AllDigits(callArg)
                    /\ Len(callArg) % 2 = 0)

C12_Witness ==
    /\ callLog = <<"validation", "itf">>
    /\ callArg = P(3)
    /\ Returned(FALSE)

\* C13: the UPC-E validation, isValidUPCE, accepts exactly the strings of 6
\* to 8 digits whose first digit is 0 or 1 when there are 7 or 8 of them;
\* every string of 6 digits is accepted, and no digit is compared with a
\* check digit: whether a string is accepted does not depend on the digits
\* after the first.
C13_UPCEStructural ==
    callLog = <<"validation", "upce">>
        => Returned(/\ Len(callArg) \in 6..8
                    /\ AllDigits(callArg)
                    /\ Len(callArg) \in 7..8 => callArg[1] \in {"0", "1"})

C13_Witness ==
    /\ callLog = <<"validation", "upce">>
    /\ Len(callArg) = 7
    /\ AllDigits(callArg)
    /\ callArg[1] = "4"
    /\ Returned(FALSE)

\* C14: after a Generate that succeeded for code39 or codabar, the generated
\* value and the data saved to the generation history are the input folded
\* to upper case; for every format that has neither a check-digit short
\* form nor case folding they are the input as typed.
C14_UpperCaseFolded ==
    saveCalls # <<>>
        => /\ selectedFormat.id \in CaseFoldedIds
                 => /\ generatedValue = ClaimUpperCase(inputValue)
                    /\ saveCalls[1].data = ClaimUpperCase(inputValue)
           /\ selectedFormat.id \notin CaseFoldedIds \cup ChecksumIds
                 => /\ generatedValue = inputValue
                    /\ saveCalls[1].data = inputValue

\* C15: the format registry is fixed.  CODE_FORMATS holds the 12 formats
\* with ids distinct in pairs, qr first and the linear formats after it in
\* the order declared, and no operation of the generator screen (picker,
\* generate, copy, share) adds, removes, reorders or alters an entry.
C15_RegistryFixed ==
    /\ Len(codeFormats) = 12
    /\ \A i, j \in 1..Len(codeFormats) :
          i # j => codeFormats[i].id # codeFormats[j].id
    /\ [i \in 1..Len(codeFormats) |-> codeFormats[i].id] = DeclaredIds
    /\ codeFormats[1].type = "qr"
    /\ \A i \in 2..Len(codeFormats) : codeFormats[i].type = "barcode"
    /\ codeFormats = CODE_FORMATS

C15_Witness ==
    /\ selectedFormat.id = "codabar"
    /\ generatedValue = <<"A", "1", "2", "3", "4", "B">>
    /\ alert = <<"Error", "Failed to share the code">>
    /\ codeFormats = CODE_FORMATS

\* C16: looking up a format id that is not registered has no effect:
\* handlePickerDone with a tempSelectedId that is the id of no entry leaves
\* selectedFormat, inputValue and generatedValue as they were, and
\* selectedFormat is at all times an entry of CODE_FORMATS.
C16_UnknownFormatIgnored ==
    /\ [](\E i \in 1..Len(CODE_FORMATS) : selectedFormat = CODE_FORMATS[i])
    /\ [][(/\ handlePickerDone
           /\ \A i \in 1..Len(CODE_FORMATS) :
                 CODE_FORMATS[i].id # tempSelectedId)
             => /\ selectedFormat' = selectedFormat
                /\ inputValue' = inputValue
                /\ generatedValue' = generatedValue]_vars

C16_Witness ==
    /\ tempSelectedId = UnknownId
    /\ ~showPicker
    /\ selectedFormat.id = "ean13"
    /\ inputValue = P(13)
    /\ generatedValue = P(12)

\* C17: render sizing.  For a pixel size S and a module count M >= 1,
\* cellSize is floor(S / M) and actualSize is cellSize * M, so that
\* actualSize <= S and S - actualSize < M; S = 200 and M = 25 give cellSize
\* 8 and actualSize 200.
C17_RenderSizing ==
    callLog = <<"QRCode">>
        => LET S == callIn[1]
               M == callIn[2]
               cell == callRet[2]
               actual == callRet[3]
           IN /\ cell * M <= S
              /\ S < (cell + 1) * M
              /\ actual = cell * M
              /\ actual <= S
              /\ S - actual < M
              /\ (S = 200 /\ M = 25) => (cell = 8 /\ actual = 200)

C17_Witness ==
    /\ callLog = <<"QRCode">>
    /\ callIn = <<200, 25>>
    /\ callRet = <<"size", 8, 200>>

\* C18: QR module extraction yields a square matrix.  For an encoder result
\* with side length size and flat array data, the matrix extracted has
\* size rows of size booleans each, and its entry (row, col) is true
\* exactly when data[row * size + col] is 1.
C18_SquareMatrix ==
    (qrMemo # <<>> /\ qrEncoder[qrMemo[1]] # Throws)
        => LET qr == qrEncoder[qrMemo[1]][2]
               m == qrMemo[2][2]
           IN /\ qrMemo[2][1] = "matrix"
              /\ Len(m) = qr.size
              /\ \A row \in 0..(qr.size - 1) :
                    /\ Len(m[row + 1]) = qr.size
                    /\ \A col \in 0..(qr.size - 1) :
                          /\ m[row + 1][col + 1] \in BOOLEAN
                          /\ m[row + 1][col + 1]
                                <=> (qr.data[row * qr.size + col + 1] = 1)

C18_Witness ==
    /\ qrEncoder[QRText] = <<"qr", [size |-> 2, data |-> <<0, 1, 0, 0>>]>>
    /\ qrMemo = <<QRText, <<"matrix", <<(<<FALSE, TRUE>>), (<<FALSE, FALSE>>)>> >> >>

\* C19 as stated: when the external QR encoder throws for a value, the
\* extraction returns null, the exception going no further, the component
\* renders nothing, and the encoder is not called again for that value.
C19_NeverCalledAgain ==
    /\ (qrMemo # <<>> /\ qrEncoder[qrMemo[1]] = Throws)
          => (qrMemo[2] = Null /\ qrView = Null)
    /\ \A i, j \in 1..Len(qrCalls) :
          (i # j /\ qrCalls[i] = qrCalls[j])
              => qrEncoder[qrCalls[i]] # Throws

\* C19, amended: when the external QR encoder throws for a value, the
\* extraction returns null, the exception going no further, the component
\* renders nothing, and a render that follows with the same value, the
\* component still mounted, does not call the encoder again.
C19_EncoderFailure ==
    /\ []((qrMemo # <<>> /\ qrEncoder[qrMemo[1]] = Throws)
             => (qrMemo[2] = Null /\ qrView = Null))
    /\ [][(/\ qrRenders' = qrRenders + 1
           /\ qrMemo # <<>>
           /\ qrMemo'[1] = qrMemo[1]
           /\ qrEncoder[qrMemo[1]] = Throws)
             => qrCalls' = qrCalls]_vars

C19_Witness ==
    /\ qrEncoder[QRText] = Throws
    /\ qrMemo = <<QRText, Null>>
    /\ qrView = Null
    /\ qrRenders = 3
    /\ qrCalls = <<QRText>>

\* C20: a barcode render failure is a state of its own that occurs only
\* after validation succeeded.  barcodeError becomes true only when the
\* barcode backend throws for the value generated last, which is kept while
\* the fallback is shown; a rejected Generate never sets it; the next
\* successful Generate and a switch to another format reset it to false.
C20_BarcodeErrorAfterValidation ==
    /\ [](barcodeError
            => /\ generatedValue # <<>>
               /\ selectedFormat.type = "barcode"
               /\ selectedFormat.hasValidation
               /\ validation(selectedFormat, generatedValue)
               /\ codeContainer = "errorContainer")
    /\ [][(~barcodeError /\ barcodeError')
             => /\ onError
                /\ codeContainer = "BarcodeErrorBoundary"
                /\ generatedValue' = generatedValue]_vars
    /\ [][(handleGenerate /\ alert' # <<>>)
             => barcodeError' = barcodeError]_vars
    /\ [][(handleGenerate /\ alert' = <<>>) => ~barcodeError']_vars
    /\ [][(selectedFormat' # selectedFormat) => ~barcodeError']_vars

C20_Witness ==
    /\ selectedFormat.id = "upce"
    /\ generatedValue = <<"0">> \o P(6)
    /\ barcodeError
    /\ inputValue = P(5)
    /\ alert = InvalidAlert("upce")

----------------------------------------------------------------------------
(* The stored histories, in the claims' terms *)

HistoryKeys == {SCAN_HISTORY_KEY, GENERATION_HISTORY_KEY}
SaveFns == {"saveScanToHistory", "saveGenerationToHistory"}
DeleteFns == {"deleteScanFromHistory", "deleteGenerationFromHistory"}

KeyOf(fn) ==
    IF fn \in {"saveScanToHistory", "deleteScanFromHistory", "clearScanHistory"}
    THEN SCAN_HISTORY_KEY
    ELSE GENERATION_HISTORY_KEY

\* the entry has the content a save was called with: the data for a scan,
\* the data and the format for a generation
SameContent(item, fn, args) ==
    /\ item.data = args[1]
    /\ fn = "saveGenerationToHistory" => item.format = args[2]

NewestFirst(items) ==
    \A i \in 1..(Len(items) - 1) :
        items[i].timestamp >= items[i + 1].timestamp

\* the call at index i returns in this step, its array stored
Stored(i) ==
    /\ calls[i].pc = "setItem"
    /\ calls' = Without(i)
    /\ failures' = failures

\* the entries of a history other than those of the content of a save
Others(items, fn, args) ==
    SelectSeq(items, LAMBDA item : ~SameContent(item, fn, args))

\* C21: after any sequence of save, delete and clear calls run one after
\* another each history holds at most 100 entries, newest first (timestamps
\* non-increasing from index 0); the save made last is at index 0 and past
\* 100 the oldest entries are dropped.
C21_HistoryBounded ==
    /\ [](~overlapped
            => \A key \in HistoryKeys :
                  /\ Len(storage[key]) <= HistoryLimit
                  /\ NewestFirst(storage[key]))
    /\ [][\A i \in 1..Len(calls) :
             (calls[i].fn \in SaveFns /\ Stored(i) /\ ~overlapped
                /\ failures = 0)
               => LET fn == calls[i].fn
                      args == calls[i].args
                      others == Others(storage[KeyOf(fn)], fn, args)
                      items == storage'[KeyOf(fn)]
                  IN  /\ items # <<>>
                      /\ SameContent(items[1], fn, args)
                      /\ items[1].timestamp = now
                      /\ Tail(items)
                           = IF Len(others) < HistoryLimit THEN others
                             ELSE SubSeq(others, 1, HistoryLimit - 1)]_vars

\* a scan new to a full history was saved: the oldest entry is gone
C21_Witness ==
    /\ ~overlapped
    /\ failures = 0
    /\ calls = <<>>
    /\ opLog # <<>>
    /\ opLog[Len(opLog)].fn = "saveScanToHistory"
    /\ Len(storage[SCAN_HISTORY_KEY]) = HistoryLimit
    /\ storage[SCAN_HISTORY_KEY][1].data = <<"a">>
    /\ storage[SCAN_HISTORY_KEY][HistoryLimit].data = <<"2">>

\* the contents of the entries of a history: the data of a scan, the data
\* and the format of a generation
Contents(key) ==
    {IF key = SCAN_HISTORY_KEY THEN <<storage[key][i].data>>
     ELSE <<storage[key][i].data, storage[key][i].format>> :
        i \in DOMAIN storage[key]}

\* C22: saving removes duplicates.  The scan history never has two entries
\* with the same data and the generation history never has two entries with
\* the same data and format; a save of content already present moves that
\* entry to the front, with the timestamp read by the save.
C22_NoDuplicates ==
    /\ [](\A key \in HistoryKeys :
             Cardinality(Contents(key)) = Len(storage[key]))
    /\ [][\A i \in 1..Len(calls) :
             (/\ calls[i].fn \in SaveFns
              /\ Stored(i)
              /\ \E j \in DOMAIN storage[KeyOf(calls[i].fn)] :
                    SameContent(storage[KeyOf(calls[i].fn)][j],
                                calls[i].fn, calls[i].args))
               => LET fn == calls[i].fn
                      args == calls[i].args
                      items == storage'[KeyOf(fn)]
                  IN  /\ items # <<>>
                      /\ SameContent(items[1], fn, args)
                      /\ items[1].timestamp = calls[i].value[1].timestamp
                      /\ ~overlapped => items[1].timestamp = now
                      /\ \A j \in 2..Len(items) :
                            ~SameContent(items[j], fn, args)
                      /\ ~overlapped /\ failures = 0
                           => Len(items) = Len(storage[KeyOf(fn)])]_vars

\* the oldest scan of a full history was scanned again, as another type: it
\* is the first entry and the history has its 100 entries still
C22_Witness ==
    /\ calls = <<>>
    /\ failures = 0
    /\ Len(storage[SCAN_HISTORY_KEY]) = HistoryLimit
    /\ storage[SCAN_HISTORY_KEY][1].data = <<"1">>
    /\ storage[SCAN_HISTORY_KEY][1].type = "ean13"
    /\ storage[SCAN_HISTORY_KEY][1].timestamp > HistoryLimit
    /\ storage[SCAN_HISTORY_KEY][HistoryLimit].data = <<"2">>

\* C26: the ids within a history are pairwise distinct, also for two saves
\* of different content made within one millisecond of the clock, so that a
\* delete by id removes exactly one entry.
C26_DistinctIds ==
    /\ [](\A key \in HistoryKeys :
             Cardinality({storage[key][i].id : i \in DOMAIN storage[key]})
               = Len(storage[key]))
    /\ [][\A i \in 1..Len(calls) :
             (/\ calls[i].fn \in DeleteFns
              /\ Stored(i)
              /\ ~overlapped
              /\ failures = 0
              /\ \E j \in DOMAIN storage[KeyOf(calls[i].fn)] :
                    storage[KeyOf(calls[i].fn)][j].id = calls[i].args[1])
               => Len(storage'[KeyOf(calls[i].fn)])
                    = Len(storage[KeyOf(calls[i].fn)]) - 1]_vars

\* C27: when a read or a write of the storage fails during a save or a
\* delete, the call completes and the stored history is left exactly as it
\* was.  Stated for the first call of a run, while no other call is in
\* flight: a failure so far is a failure of this call, and what is stored
\* is what was stored when it was called.
C27_FailureLeavesHistory ==
    [][(/\ Len(opLog) = 1
        /\ Len(calls) = 1
        /\ calls[1].fn \in SaveFns \cup DeleteFns
        /\ calls' = <<>>
        /\ failures' > 0)
          => storage' = storage]_vars

----------------------------------------------------------------------------
(* The scanner, in the claims' terms *)

\* the data of the items of a list
DataOf(list) == {list[i].data : i \in DOMAIN list}

\* the list of the next render
NextItems ==
    Apply([scanned |-> scanned, scannedData |-> scannedData,
           scannedType |-> scannedType, scannedItems |-> scannedItems,
           showMultiResults |-> showMultiResults,
           selectedItem |-> selectedItem, set |-> scannedDataSet],
          pending).scannedItems

\* C23: the de-duplication of the multi-scan mode has no race.  The list
\* never holds two items with the same data, whatever the order of the
\* callbacks and the renders; when an item is removed its data is out of
\* the seen-set, so that it is accepted again; when the scanner is reset the
\* seen-set is empty and so is the list of the next render.
C23_MultiScanDedup ==
    /\ [](/\ Cardinality(DataOf(scannedItems)) = Len(scannedItems)
          /\ Cardinality(DataOf(NextItems)) = Len(NextItems))
    /\ [][handleRemoveItem
            => /\ pending = <<>> => Len(scannedItems') = Len(scannedItems) - 1
               /\ \A data \in DataOf(scannedItems) \ DataOf(scannedItems') :
                     ~seen(data)']_vars
    /\ [][(handleBarCodeScanned /\ settings.multiScan)
            => \A data \in ScanData :
                  (~seen(data) /\ seen(data)')
                    => /\ data \notin DataOf(NextItems)
                       /\ data \in DataOf(NextItems')]_vars
    /\ [][(\/ resetScanner /\ ~settings.hapticEnabled
           \/ resetScanner_impactAsync)
            => /\ scannedDataSet' = {}
               /\ NextItems' = <<>>]_vars

\* the first item was removed from the results and its data was scanned
\* again: it is in the list once
C23_Witness ==
    /\ settings.multiScan
    /\ scans = 2
    /\ showMultiResults
    /\ pending = <<>>
    /\ scannedDataSet = {<<"a">>}
    /\ Len(scannedItems) = 1
    /\ scannedItems[1].id = 2
    /\ scannedItems[1].data = <<"a">>

\* C24: the single-scan mode accepts one callback between two resets: a
\* callback that arrives while the first awaits its haptic feedback or its
\* save is not accepted.
C24_SingleAccept ==
    ~settings.multiScan => Len(accepted) <= 1

\* C25: no save is lost when several calls of saveScanToHistory are in
\* flight together, as the multi-scan mode makes them: once the calls have
\* returned, with no failure of the storage and no entry dropped at the
\* limit, the data of every call is in the stored scan history.
C25_NoSaveLost ==
    (/\ calls = <<>>
     /\ failures = 0
     /\ \A i \in DOMAIN opLog : opLog[i].fn = "saveScanToHistory"
     /\ Len(storage[SCAN_HISTORY_KEY]) < HistoryLimit)
      => \A i \in DOMAIN opLog :
            opLog[i].args[1] \in DataOf(storage[SCAN_HISTORY_KEY])

\* C30: while saveHistory is off no scan is written to the stored scan
\* history: neither the camera callback of the single-scan mode, nor the
\* one of the multi-scan mode, nor a picked image calls saveScanToHistory;
\* the result is shown all the same.
C30_SaveHistoryOff ==
    /\ [](~settings.saveHistory
            => /\ calls = <<>>
               /\ opLog = <<>>
               /\ storage[SCAN_HISTORY_KEY] = <<>>)
    /\ [][\A i \in DOMAIN handlers :
             (/\ handlers[i].pc = "haptic"
              /\ handlers[i].fn # "resetScanner"
              /\ handlers' = Ended(handlers[i]))
               => \E j \in DOMAIN pending' :
                     pending'[j] = <<"setScannedData", handlers[i].data>>]_vars
    /\ [][(handleBarCodeScanned /\ settings.multiScan)
            => \A data \in ScanData :
                  (~seen(data) /\ seen(data)')
                    => data \in DataOf(NextItems')]_vars

\* with saveHistory off a barcode was scanned, or found in a picked image,
\* and its result is on the screen
C30_Witness ==
    /\ ~settings.saveHistory
    /\ ~settings.multiScan
    /\ ResultShown
    /\ scannedData = <<"b">>
    /\ pending = <<>>
    /\ handlers = <<>>

\* C28: with requireAuthForHistory on, the history is shown only while
\* isAuthenticated is true; isAuthenticated becomes true only by an
\* authentication that succeeded and is cleared when the tab loses the
\* focus, so that every visit of the tab needs an authentication of its
\* own, also when a prompt started during an earlier visit succeeds after
\* the user has left the tab.
C28_OwnAuthentication ==
    /\ []((requireAuth /\ focused /\ ~Locked) => authVisit = visits)
    /\ [][(~isAuthenticated /\ isAuthenticated')
            => performAuth_authenticateAsync]_vars
    /\ [][(onBlur /\ requireAuth) => ~isAuthenticated']_vars

\* C29: a generated code that is displayed is valid for the format that is
\* selected.  While generatedValue is not empty it is not blank and, when
\* the selected format has a validation, passes it; generatedValue gets a
\* new non-empty value only from a handleGenerate that raised no alert, and
\* the value is the input; a change of selectedFormat empties generatedValue
\* and inputValue; handlePickerCancel, and handlePickerDone on the id of the
\* selected format, leave selectedFormat, inputValue and generatedValue as
\* they were.
C29_GeneratedValueValid ==
    /\ [](generatedValue # <<>>
            => /\ trim(generatedValue) # <<>>
               /\ selectedFormat.hasValidation
                     => validation(selectedFormat, generatedValue))
    /\ [][(generatedValue' # generatedValue /\ generatedValue' # <<>>)
             => /\ handleGenerate
                /\ alert' = <<>>
                /\ generatedValue' = inputValue
                /\ trim(inputValue) # <<>>
                /\ selectedFormat.hasValidation
                      => validation(selectedFormat, inputValue)]_vars
    /\ [][(selectedFormat' # selectedFormat)
             => generatedValue' = <<>> /\ inputValue' = <<>>]_vars
    /\ [][(\/ handlePickerCancel
           \/ handlePickerDone /\ tempSelectedId = selectedFormat.id)
             => UNCHANGED <<selectedFormat, inputValue, generatedValue>>]_vars

\* a code generated for Codabar is displayed after the picker was closed
\* with Done on Codabar itself, the input typed since being one that EAN-13
\* accepts and Codabar rejects
C29_Witness ==
    /\ selectedFormat.id = "codabar"
    /\ generatedValue = <<"a", "1", "2", "b">>
    /\ inputValue = <<"1", "2", "3", "4">>
    /\ tempSelectedId = "codabar"
    /\ ~showPicker
    /\ alert = <<>>

====
